---- MODULE Spec2Model ----
(***************************************************************************)
(* Model of the paper upload route (src/src/app/api/papers/route.ts):      *)
(* the metadata extraction engine (extractBasicInfo and its six field      *)
(* extractors) and the POST handler that calls it.                         *)
(*                                                                         *)
(* A text is a sequence of characters; a character is a one-character      *)
(* string, or a "U+xxxx" name for a character outside ASCII.  The regular  *)
(* expressions of the source are written out as operators on such          *)
(* sequences, with the matching priorities of a backtracking matcher.      *)
(***************************************************************************)
EXTENDS Integers, Sequences, FiniteSets, TLC

VARIABLES
    pdfResult,  \* what pdf(pdfBuffer) does for the buffer at hand
    info,       \* completion of the extractBasicInfo call, or NotRun
    pc,         \* position of the POST handler, or the extractor that ran last
    request,    \* the request the POST handler is serving
    uploads,    \* files in uploads/papers
    papers,     \* rows of the paper table
    response,   \* the handler's response, or NoResponse
    clock,      \* how many requests or calls have been made
    history,    \* the calls of extractBasicInfo made so far: <<text, completion>>
    partial,    \* the fields extracted so far when the extractors run one by one
    handlers,   \* the requests to /api/papers/[id] and the list GET being served
    fileUpload, \* the state of the FileUpload component
    uploadPage, \* the state of UploadPage and what its handleUpload has done
    papersPage  \* the state of PapersPage and its fetches in flight

vars == <<pdfResult, info, pc, request, uploads, papers, response, clock,
          history, partial, handlers, fileUpload, uploadPage, papersPage>>

\* the state of the three components of the browser
components == <<fileUpload, uploadPage, papersPage>>

-----------------------------------------------------------------------------
(* Characters *)

UpperSeq == <<"A","B","C","D","E","F","G","H","I","J","K","L","M",
              "N","O","P","Q","R","S","T","U","V","W","X","Y","Z">>
LowerSeq == <<"a","b","c","d","e","f","g","h","i","j","k","l","m",
              "n","o","p","q","r","s","t","u","v","w","x","y","z">>
DigitSeq == <<"0","1","2","3","4","5","6","7","8","9">>

Range(f) == {f[i] : i \in DOMAIN f}

\* [A-Z], [a-z], \d
Upper == Range(UpperSeq)
Lower == Range(LowerSeq)
Digit == Range(DigitSeq)

\* \s of a regular expression and the characters String.prototype.trim strips
WhiteSpace == {" ", "\t", "\n", "\r"}

\* the two characters of the Japanese date notation
Nen  == "U+5E74"
Gatsu == "U+6708"

\* case folding of the i flag
ToLower(c) ==
    IF c \in Upper
    THEN LowerSeq[CHOOSE i \in 1..26 : UpperSeq[i] = c]
    ELSE c

Min2(a, b) == IF a < b THEN a ELSE b

SetMin(S) == CHOOSE x \in S : \A y \in S : x <= y
SetMax(S) == CHOOSE x \in S : \A y \in S : x >= y

-----------------------------------------------------------------------------
(* String methods *)

\* null and undefined: one-element sequences that no text equals (a text
\* holds characters only)
Null == <<"null">>
Undefined == <<"undefined">>

\* the end of the longest run of characters of class C starting at i
\* (i - 1 when s[i] is not in C)
RunEnd(s, i, C) ==
    IF i > Len(s) THEN i - 1
    ELSE CHOOSE e \in (i - 1)..Len(s) :
             /\ e = Len(s) \/ s[e + 1] \notin C
             /\ \A j \in i..e : s[j] \in C

\* the end of the longest run of characters outside C starting at i
RunEndNot(s, i, C) ==
    IF i > Len(s) THEN i - 1
    ELSE CHOOSE e \in (i - 1)..Len(s) :
             /\ e = Len(s) \/ s[e + 1] \in C
             /\ \A j \in i..e : s[j] \notin C

\* first index >= i of s that holds no whitespace (Len(s)+1 if none)
SkipWS(s, i) == RunEnd(s, i, WhiteSpace) + 1

\* last index <= i of s that holds no whitespace (0 if none)
SkipWSBack(s, i) ==
    IF i < 1 THEN i
    ELSE CHOOSE b \in 0..i :
             /\ b = 0 \/ s[b] \notin WhiteSpace
             /\ \A j \in (b + 1)..i : s[j] \in WhiteSpace

\* String.prototype.trim
Trim(s) == SubSeq(s, SkipWS(s, 1), SkipWSBack(s, Len(s)))

\* s.split('\n'): the text between consecutive newlines, one line more than
\* there are newlines
Split(s) ==
    LET nl == {i \in 1..Len(s) : s[i] = "\n"}
        n  == Cardinality(nl)
        at(k) == IF k = 0 THEN 0
                 ELSE IF k = n + 1 THEN Len(s) + 1
                 ELSE CHOOSE i \in nl : Cardinality({j \in nl : j < i}) = k - 1
    IN  [k \in 1..(n + 1) |-> SubSeq(s, at(k - 1) + 1, at(k) - 1)]

\* a.slice(0, n) of an array, s.substring(0, n) of a string
Slice0(a, n) == SubSeq(a, 1, Min2(n, Len(a)))

\* the pattern word (lower case) matches s at index i under the i flag
MatchAtCI(s, i, word) ==
    /\ i >= 1
    /\ i + Len(word) - 1 <= Len(s)
    /\ \A k \in 1..Len(word) : ToLower(s[i + k - 1]) = word[k]

\* s.includes(c) for a single character
Includes(s, c) == \E i \in 1..Len(s) : s[i] = c

-----------------------------------------------------------------------------
(* The words of the patterns, in lower case *)

W_abstract     == <<"a","b","s","t","r","a","c","t">>
W_introduction == <<"i","n","t","r","o","d","u","c","t","i","o","n">>
W_conclusion   == <<"c","o","n","c","l","u","s","i","o","n">>
W_keywords     == <<"k","e","y","w","o","r","d","s">>
W_key          == <<"k","e","y">>
W_words        == <<"w","o","r","d","s">>
W_doi          == <<"d","o","i">>
W_published    == <<"p","u","b","l","i","s","h","e","d">>
W_in           == <<"i","n">>
W_journal      == <<"j","o","u","r","n","a","l">>
W_proceedings  == <<"p","r","o","c","e","e","d","i","n","g","s">>
W_of           == <<"o","f">>

\* 'タイトル不明'
SentinelTitle == <<"U+30BF","U+30A4","U+30C8","U+30EB","U+4E0D","U+660E">>

-----------------------------------------------------------------------------
(* extractTitle *)

TitleScanLines == 10
TitleMinLen == 10
TitleMaxLen == 200

\* /^\d+\./
IsNumberedItem(t) ==
    \E k \in 1..(Len(t) - 1) :
        /\ \A j \in 1..k : t[j] \in Digit
        /\ t[k + 1] = "."

\* /^(abstract|introduction|conclusion)/i
StartsWithSectionName(t) ==
    \/ MatchAtCI(t, 1, W_abstract)
    \/ MatchAtCI(t, 1, W_introduction)
    \/ MatchAtCI(t, 1, W_conclusion)

\* /^[A-Z\s]+$/
IsAllUpperCase(t) ==
    /\ Len(t) >= 1
    /\ \A j \in 1..Len(t) : t[j] \in Upper \cup WhiteSpace

\* (mutant) any whitespace character counts as a space
HasSpace_AnyWhitespace(t) == \E i \in 1..Len(t) : t[i] \in WhiteSpace

\* trimmed.includes(' ')
HasSpace(t) == Includes(t, " ")

\* (mutant) the upper-case check is left out
TitleAccepts_NoUpperCaseCheck(trimmed) ==
    /\ Len(trimmed) > TitleMinLen
    /\ Len(trimmed) < TitleMaxLen
    /\ ~IsNumberedItem(trimmed)
    /\ ~StartsWithSectionName(trimmed)
    /\ HasSpace(trimmed)

\* the conditions of lines 66-71 on a trimmed line
TitleAccepts(trimmed) ==
    /\ Len(trimmed) > TitleMinLen
    /\ Len(trimmed) < TitleMaxLen
    /\ ~IsNumberedItem(trimmed)
    /\ ~StartsWithSectionName(trimmed)
    /\ ~IsAllUpperCase(trimmed)
    /\ HasSpace(trimmed)

RECURSIVE TitleLoop(_, _)
\* the for loop over lines, from line i on: the first accepted line, trimmed
TitleLoop(lines, i) ==
    IF i > Len(lines) THEN Null
    ELSE LET trimmed == Trim(lines[i])
         IN  IF TitleAccepts(trimmed) THEN trimmed
             ELSE TitleLoop(lines, i + 1)

\* (mutant) every line is scanned
extractTitle_AllLines(text) == TitleLoop(Split(text), 1)

extractTitle(text) == TitleLoop(Slice0(Split(text), TitleScanLines), 1)

-----------------------------------------------------------------------------
(* extractAuthors *)

AuthorScanLines == 20
MaxAuthors == 5

\* /^[A-Z][a-z]+\s+[A-Z][a-z]+/: the first word ends at a, the whitespace
\* at b; each + takes all it can, and giving back leaves a character the
\* next item does not match
LooksLikeName(t) ==
    /\ Len(t) >= 1
    /\ t[1] \in Upper
    /\ LET a == RunEnd(t, 2, Lower)
           b == RunEnd(t, a + 1, WhiteSpace)
       IN  /\ a >= 2
           /\ b >= a + 1
           /\ b + 2 <= Len(t)
           /\ t[b + 1] \in Upper
           /\ t[b + 2] \in Lower

RECURSIVE AuthorLoop(_, _, _)
\* the for loop over lines, from line i on, pushing onto authors
AuthorLoop(lines, i, authors) ==
    IF i > Len(lines) THEN authors
    ELSE LET trimmed == Trim(lines[i])
         IN  IF LooksLikeName(trimmed) /\ ~StartsWithSectionName(trimmed)
             THEN AuthorLoop(lines, i + 1, Append(authors, trimmed))
             ELSE AuthorLoop(lines, i + 1, authors)

\* (mutant) the line already taken as title is not taken as author
extractAuthors_SkipsTitle(text) ==
    LET authors == AuthorLoop(Slice0(Split(text), AuthorScanLines), 1, <<>>)
    IN  Slice0(SelectSeq(authors, LAMBDA a : a # partial.title), MaxAuthors)

\* (mutant) every line is scanned
extractAuthors_AllLines(text) ==
    Slice0(AuthorLoop(Split(text), 1, <<>>), MaxAuthors)

\* (mutant) the list is not cut
extractAuthors_NoCap(text) ==
    AuthorLoop(Slice0(Split(text), AuthorScanLines), 1, <<>>)

extractAuthors(text) ==
    Slice0(AuthorLoop(Slice0(Split(text), AuthorScanLines), 1, <<>>), MaxAuthors)

-----------------------------------------------------------------------------
(* extractAbstract *)

AbstractMaxLen == 1000

\* the positions just after a greedy \s* that starts at i, and every
\* position it can give back to
AfterWS(s, i) == i..SkipWS(s, i)

\* the positions just after a greedy \s+ that starts at i
AfterWS1(s, i) == (i + 1)..SkipWS(s, i)

\* the character c is at index i
CharAt(s, i, c) == i >= 1 /\ i <= Len(s) /\ s[i] = c

\* the lookahead (?=introduction|1\.|keywords|key\s*words) holds at index r
AbstractEndsAt(s, r) ==
    \/ MatchAtCI(s, r, W_introduction)
    \/ (CharAt(s, r, "1") /\ CharAt(s, r + 1, "."))
    \/ MatchAtCI(s, r, W_keywords)
    \/ /\ MatchAtCI(s, r, W_key)
       /\ \E b \in AfterWS(s, r + 3) : MatchAtCI(s, b, W_words)

\* the ways abstract\s*:?\s* matches from index p: <<a, c, b>> with a the end
\* of the first \s*, c whether the colon is taken, b the start of the capture
AbstractHeads(s, p) ==
    IF ~MatchAtCI(s, p, W_abstract) THEN {}
    ELSE UNION { UNION { { <<a, c, b>> : b \in AfterWS(s, a + c) }
                         : c \in {0} \cup (IF CharAt(s, a, ":") THEN {1} ELSE {}) }
                 : a \in AfterWS(s, p + Len(W_abstract)) }

\* a greedy quantifier takes the longest alternative first
Prefers(x, y) ==
    \/ x[1] > y[1]
    \/ x[1] = y[1] /\ x[2] > y[2]
    \/ x[1] = y[1] /\ x[2] = y[2] /\ x[3] >= y[3]

\* (mutant) (.*) for (.*?): the capture runs to the last terminator
AbstractMatch_Greedy(text) ==
    LET ends  == {r \in 1..Len(text) : AbstractEndsAt(text, r)}
        ok(h) == \E r \in ends : r >= h[3]
        starts == {p \in 1..Len(text) :
                      \E h \in AbstractHeads(text, p) : ok(h)}
    IN  IF starts = {} THEN Null
        ELSE LET p  == SetMin(starts)
                 hs == {h \in AbstractHeads(text, p) : ok(h)}
                 h  == CHOOSE x \in hs : \A y \in hs : Prefers(x, y)
             IN  SubSeq(text, h[3], SetMax(ends) - 1)

\* text.match(/abstract\s*:?\s*(.*?)(?=...)/is): the capture group of the
\* leftmost match, or Null
AbstractMatch(text) ==
    LET ends  == {r \in 1..Len(text) : AbstractEndsAt(text, r)}
        ok(h) == \E r \in ends : r >= h[3]
        starts == {p \in 1..Len(text) :
                      \E h \in AbstractHeads(text, p) : ok(h)}
    IN  IF starts = {} THEN Null
        ELSE LET p  == SetMin(starts)
                 hs == {h \in AbstractHeads(text, p) : ok(h)}
                 h  == CHOOSE x \in hs : \A y \in hs : Prefers(x, y)
                 r  == SetMin({e \in ends : e >= h[3]})
             IN  SubSeq(text, h[3], r - 1)

\* (mutant) the abstract is not cut
extractAbstract_NoCut(text) ==
    LET abstractMatch == AbstractMatch(text)
    IN  IF abstractMatch # Null THEN Trim(abstractMatch) ELSE Null

\* (mutant) no match gives the empty string
extractAbstract_EmptyForNull(text) ==
    LET abstractMatch == AbstractMatch(text)
    IN  IF abstractMatch # Null
        THEN Slice0(Trim(abstractMatch), AbstractMaxLen)
        ELSE <<>>

extractAbstract(text) ==
    LET abstractMatch == AbstractMatch(text)
    IN  IF abstractMatch # Null
        THEN Slice0(Trim(abstractMatch), AbstractMaxLen)
        ELSE Null

-----------------------------------------------------------------------------
(* extractDOI *)

\* the end of the longest run of non-whitespace characters starting at i
NonWSEnd(s, i) == RunEndNot(s, i, WhiteSpace)

\* the ways doi\s*:?\s* matches from index p, as for AbstractHeads
DoiHeads(s, p) ==
    IF ~MatchAtCI(s, p, W_doi) THEN {}
    ELSE UNION { UNION { { <<a, c, b>> : b \in AfterWS(s, a + c) }
                         : c \in {0} \cup (IF CharAt(s, a, ":") THEN {1} ELSE {}) }
                 : a \in AfterWS(s, p + Len(W_doi)) }

\* 10\.\d+\/[^\s]+ matches from index b: the index of its last character,
\* or 0
DoiTokenEnd(s, b) ==
    IF /\ CharAt(s, b, "1") /\ CharAt(s, b + 1, "0") /\ CharAt(s, b + 2, ".")
       /\ b + 3 <= Len(s) /\ s[b + 3] \in Digit
    THEN LET d == RunEnd(s, b + 3, Digit)
         IN  IF CharAt(s, d + 1, "/") /\ NonWSEnd(s, d + 2) >= d + 2
             THEN NonWSEnd(s, d + 2)
             ELSE 0
    ELSE 0

\* text.match(/doi\s*:?\s*10\.\d+\/[^\s]+/i): match[0], or Null
DoiMatch(text) ==
    LET ok(h)  == DoiTokenEnd(text, h[3]) > 0
        starts == {p \in 1..Len(text) : \E h \in DoiHeads(text, p) : ok(h)}
    IN  IF starts = {} THEN Null
        ELSE LET p  == SetMin(starts)
                 hs == {h \in DoiHeads(text, p) : ok(h)}
                 h  == CHOOSE x \in hs : \A y \in hs : Prefers(x, y)
             IN  SubSeq(text, p, DoiTokenEnd(text, h[3]))

\* (mutant) the label is not cut out
StripDoiLabel_KeepsLabel(m) == m

\* m.replace(/doi\s*:?\s*/i, ''): the leftmost match of the label, taken
\* greedily, is cut out
StripDoiLabel(m) ==
    LET starts == {p \in 1..Len(m) : MatchAtCI(m, p, W_doi)}
    IN  IF starts = {} THEN m
        ELSE LET p  == SetMin(starts)
                 hs == DoiHeads(m, p)
                 h  == CHOOSE x \in hs : \A y \in hs : Prefers(x, y)
             IN  SubSeq(m, 1, p - 1) \o SubSeq(m, h[3], Len(m))

\* (mutant) the pattern object is kept between calls with the g flag and
\* used with exec: the call after one that matched starts at lastIndex,
\* finds nothing and resets lastIndex
extractDOI_KeepsLastIndex(text) ==
    LET doiMatch == DoiMatch(text)
        matchedBefore ==
            /\ history # <<>>
            /\ history[Len(history)][2].value.doi # Null
    IN  IF doiMatch # Null /\ ~matchedBefore THEN StripDoiLabel(doiMatch) ELSE Null

extractDOI(text) ==
    LET doiMatch == DoiMatch(text)
    IN  IF doiMatch # Null THEN StripDoiLabel(doiMatch) ELSE Null

-----------------------------------------------------------------------------
(* extractPublicationDate *)

\* the value of a decimal digit
DigitValue(c) == (CHOOSE i \in 1..10 : DigitSeq[i] = c) - 1

RECURSIVE DigitsValue(_, _)
\* the number the first n characters of the digit string s write
DigitsValue(s, n) ==
    IF n = 0 THEN 0 ELSE 10 * DigitsValue(s, n - 1) + DigitValue(s[n])

\* parseInt of a capture group that holds digits
ParseInt(g) == DigitsValue(g, Len(g))

\* parseInt(g) || 1: parseInt(undefined), for a group the pattern does not
\* have, is NaN, and NaN and 0 are falsy
ParseIntOr1(g) ==
    IF g = Undefined THEN 1
    ELSE IF ParseInt(g) = 0 THEN 1 ELSE ParseInt(g)

\* \d{n}: the n characters from index i are digits
DigitsAt(s, i, n) ==
    /\ i >= 1
    /\ i + n - 1 <= Len(s)
    /\ \A k \in 0..(n - 1) : s[i + k] \in Digit

\* the ends of the ways \d{1,2} matches from index i, the longest first
OneOrTwoDigits(s, i) == {e \in {i + 1, i} : DigitsAt(s, i, e - i + 1)}

\* /(\d{4})\s*年\s*(\d{1,2})\s*月/ from index p: the captures <<y, m, d>> of
\* every way to match, d being Undefined
DateMatchesNen(s, p) ==
    IF ~DigitsAt(s, p, 4) THEN {}
    ELSE { <<SubSeq(s, p, p + 3), SubSeq(s, x[2], x[3]), Undefined>> :
           x \in { y \in UNION { UNION { { <<a, b, e>> : e \in OneOrTwoDigits(s, b) }
                                         : b \in AfterWS(s, a + 1) }
                                 : a \in AfterWS(s, p + 4) } :
                   /\ CharAt(s, y[1], Nen)
                   /\ \E g \in AfterWS(s, y[3] + 1) : CharAt(s, g, Gatsu) } }

\* /(\d{4})[-\/](\d{1,2})[-\/](\d{1,2})/ from index p: the captures of the
\* preferred way to match, in a set (empty when there is none)
DateMatchesDash(s, p) ==
    IF ~(DigitsAt(s, p, 4) /\ (CharAt(s, p + 4, "-") \/ CharAt(s, p + 4, "/")))
    THEN {}
    ELSE LET ms == {e \in OneOrTwoDigits(s, p + 5) :
                       /\ CharAt(s, e + 1, "-") \/ CharAt(s, e + 1, "/")
                       /\ OneOrTwoDigits(s, e + 2) # {}}
         IN  IF ms = {} THEN {}
             ELSE LET e == SetMax(ms)
                      f == SetMax(OneOrTwoDigits(s, e + 2))
                  IN  { <<SubSeq(s, p, p + 3), SubSeq(s, p + 5, e),
                          SubSeq(s, e + 2, f)>> }

\* /(\d{4})\s+(\d{1,2})\s+(\d{1,2})/ from index p, as for DateMatchesDash
DateMatchesSpace(s, p) ==
    IF ~DigitsAt(s, p, 4) THEN {}
    ELSE LET b  == SkipWS(s, p + 4)
             ms == {e \in OneOrTwoDigits(s, b) :
                       /\ b > p + 4
                       /\ SkipWS(s, e + 1) > e + 1
                       /\ OneOrTwoDigits(s, SkipWS(s, e + 1)) # {}}
         IN  IF ms = {} THEN {}
             ELSE LET e == SetMax(ms)
                      c == SkipWS(s, e + 1)
                      f == SetMax(OneOrTwoDigits(s, c))
                  IN  { <<SubSeq(s, p, p + 3), SubSeq(s, b, e), SubSeq(s, c, f)>> }

\* the three entries of datePatterns, in order
DatePatternMatches(k, s, p) ==
    CASE k = 1 -> DateMatchesNen(s, p)
      [] k = 2 -> DateMatchesDash(s, p)
      [] k = 3 -> DateMatchesSpace(s, p)

\* text.match(datePatterns[k]): the captures of the leftmost match, or Null
DateMatch(k, text) ==
    LET starts == {p \in 1..Len(text) : DatePatternMatches(k, text, p) # {}}
    IN  IF starts = {} THEN Null
        ELSE CHOOSE m \in DatePatternMatches(k, text, SetMin(starts)) : TRUE

IsLeapYear(y) == (y % 4 = 0 /\ y % 100 # 0) \/ y % 400 = 0

\* the days of month m (1..12) of year y
DaysInMonth(y, m) ==
    IF m = 2 THEN (IF IsLeapYear(y) THEN 29 ELSE 28)
    ELSE IF m \in {4, 6, 9, 11} THEN 30 ELSE 31

RECURSIVE CarryDays(_, _, _)
\* day d (>= 1) of month m of year y as <<year, month, day>>, days beyond
\* the month's end carried into the months that follow
CarryDays(y, m, d) ==
    IF d <= DaysInMonth(y, m) THEN <<y, m, d>>
    ELSE IF m = 12 THEN CarryDays(y + 1, 1, d - DaysInMonth(y, m))
    ELSE CarryDays(y, m + 1, d - DaysInMonth(y, m))

\* new Date(year, monthIndex, day) for year >= 0, monthIndex >= 0, day >= 1:
\* the local calendar date.  A year of 0..99 means 1900 + year; a month index
\* above 11 and a day beyond the month's end carry over.
NewDate(year, monthIndex, day) ==
    LET full == IF year <= 99 THEN 1900 + year ELSE year
    IN  CarryDays(full + (monthIndex \div 12), (monthIndex % 12) + 1, day)

RECURSIVE DateLoop(_, _)
\* the for loop over datePatterns, from pattern k on
DateLoop(text, k) ==
    IF k > 3 THEN Null
    ELSE LET match == DateMatch(k, text)
         IN  IF match # Null
             THEN LET year  == ParseInt(match[1])
                      month == ParseIntOr1(match[2])
                      day   == ParseIntOr1(match[3])
                  IN  NewDate(year, month - 1, day)
             ELSE DateLoop(text, k + 1)

\* (mutant) the pattern whose match starts first in the text is used
extractPublicationDate_EarliestMatch(text) ==
    LET at(k) == SetMin({p \in 1..Len(text) : DatePatternMatches(k, text, p) # {}})
        found == {k \in 1..3 : DateMatch(k, text) # Null}
    IN  IF found = {} THEN Null
        ELSE LET k == CHOOSE x \in found : \A y \in found : at(x) <= at(y)
                 match == DateMatch(k, text)
             IN  NewDate(ParseInt(match[1]), ParseIntOr1(match[2]) - 1,
                         ParseIntOr1(match[3]))

extractPublicationDate(text) == DateLoop(text, 1)

-----------------------------------------------------------------------------
(* extractJournal *)

\* (mutant) 'journal of' is tried before 'published in'
JournalWords_JournalFirst ==
    << <<W_journal, W_of>>, <<W_published, W_in>>, <<W_proceedings, W_of>> >>

\* the first and second word of the three entries of journalPatterns
JournalWords ==
    << <<W_published, W_in>>, <<W_journal, W_of>>, <<W_proceedings, W_of>> >>

\* (mutant) . for [^,]: the capture runs to the end of the text
NonCommaEnd_ToEnd(s, i) == Len(s)

\* the end of the longest run of characters other than a comma from index i
NonCommaEnd(s, i) == RunEndNot(s, i, {","})

\* /w1\s+w2\s+([^,]+)/i from index p: the starts of the capture group of the
\* ways to match
JournalHeads(k, s, p) ==
    LET w1 == JournalWords[k][1]
        w2 == JournalWords[k][2]
    IN  IF ~MatchAtCI(s, p, w1) THEN {}
        ELSE UNION { { b \in AfterWS1(s, a + Len(w2)) : NonCommaEnd(s, b) >= b }
                     : a \in {x \in AfterWS1(s, p + Len(w1)) : MatchAtCI(s, x, w2)} }

\* text.match(journalPatterns[k]): the capture group of the leftmost match,
\* or Null
JournalMatch(k, text) ==
    LET starts == {p \in 1..Len(text) : JournalHeads(k, text, p) # {}}
    IN  IF starts = {} THEN Null
        ELSE LET b == SetMax(JournalHeads(k, text, SetMin(starts)))
             IN  SubSeq(text, b, NonCommaEnd(text, b))

RECURSIVE JournalLoop(_, _)
\* the for loop over journalPatterns, from pattern k on
JournalLoop(text, k) ==
    IF k > 3 THEN Null
    ELSE LET match == JournalMatch(k, text)
         IN  IF match # Null THEN Trim(match) ELSE JournalLoop(text, k + 1)

extractJournal(text) == JournalLoop(text, 1)

-----------------------------------------------------------------------------
(* extractBasicInfo *)

\* the completion of a call: a returned value or a thrown error
Return(v) == [kind |-> "return", value |-> v]
Throw == [kind |-> "throw", value |-> Undefined]
NotRun == [kind |-> "notrun", value |-> Undefined]

\* what pdf(pdfBuffer) can do: reject, or resolve to data whose text is a
\* string or is missing
PdfRejects == [rejects |-> TRUE, text |-> Undefined]
PdfData(t) == [rejects |-> FALSE, text |-> t]

\* (mutant) the fallback is forgotten
OrElse_NoFallback(x, y) == x

\* x || y for a string or null x
OrElse(x, y) == IF x = Null \/ x = <<>> THEN y ELSE x

\* the object of lines 53-56: the properties it does not set are undefined
DegradedInfo ==
    [title |-> SentinelTitle, authors |-> <<>>, abstract |-> Undefined,
     doi |-> Undefined, publicationDate |-> Undefined, journal |-> Undefined]

\* the try block, lines 32-50: pdf() rejecting and text.split on a missing
\* text throw
ExtractTryBlock(pdf) ==
    IF pdf.rejects THEN Throw
    ELSE LET text == pdf.text
         IN  IF text = Undefined THEN Throw
             ELSE Return([title |-> OrElse(extractTitle(text), SentinelTitle),
                          authors |-> extractAuthors(text),
                          abstract |-> extractAbstract(text),
                          doi |-> extractDOI(text),
                          publicationDate |-> extractPublicationDate(text),
                          journal |-> extractJournal(text)])

\* (mutant) the try block without its catch
extractBasicInfo_NoCatch(pdf) == ExtractTryBlock(pdf)

\* try { ... } catch (error) { return { title: 'タイトル不明', authors: [] } }
extractBasicInfo(pdf) ==
    LET tried == ExtractTryBlock(pdf)
    IN  IF tried.kind = "throw" THEN Return(DegradedInfo) ELSE tried

-----------------------------------------------------------------------------
(* POST /api/papers *)

MAX_FILE_SIZE == 50 * 1024 * 1024

\* requests the model serves before it stops
MaxRequests == 2

Users == {"alice", "bob"}
\* session?.user?.id of a request without a session
NoUserId == ""

FileTypes == {"application/pdf", "text/plain"}
FileSizes == {MAX_FILE_SIZE - 1, MAX_FILE_SIZE, MAX_FILE_SIZE + 1}

\* formData.get('file'): a file, or nothing
NoFile == [present |-> FALSE, type |-> "", size |-> 0]
Files == {[present |-> TRUE, type |-> t, size |-> z] : t \in FileTypes, z \in FileSizes}

\* a request: n tells it from every other request
NoRequest == [n |-> 0, userId |-> NoUserId, file |-> NoFile]
NoResponse == [status |-> 0, paper |-> 0, thrownBy |-> "nothing"]
\* NextResponse.json({ error }, { status }) of the checks of lines 152-171
ErrorResponse(status) == [status |-> status, paper |-> 0, thrownBy |-> "nothing"]
\* the catch of lines 221-227: the error thrown by a call is logged, status 500
CaughtResponse(call) == [status |-> 500, paper |-> 0, thrownBy |-> call]
\* NextResponse.json({ success: true, paper }): status 200
SuccessResponse(id) == [status |-> 200, paper |-> id, thrownBy |-> "nothing"]

\* the paperDetails row of a paper that has none
NoDetails ==
    [exists |-> FALSE, summary |-> Null, methodology |-> Null, benefits |-> Null,
     verification |-> Null, discussion |-> Null, tags |-> <<>>]

\* the row prisma.paper.create stores for the data of lines 193-203: an
\* undefined property is left out, and the column is null; the row of
\* paperDetails that belongs to the paper is kept with it
Column(x) == IF x = Undefined THEN Null ELSE x
PaperRow(id, extractedInfo, filePath, userId) ==
    [id |-> id,
     title |-> extractedInfo.title,
     authors |-> extractedInfo.authors,
     abstract |-> Column(extractedInfo.abstract),
     doi |-> Column(extractedInfo.doi),
     publicationDate |-> Column(extractedInfo.publicationDate),
     journal |-> Column(extractedInfo.journal),
     volume |-> Null,
     issue |-> Null,
     pages |-> Null,
     details |-> NoDetails,
     pdfPath |-> filePath,
     userId |-> userId]

\* (mutant) a file of MAX_FILE_SIZE bytes is turned away too
PostRejection_AtLimit(req) ==
    IF req.userId = NoUserId THEN ErrorResponse(401)
    ELSE IF ~req.file.present THEN ErrorResponse(400)
    ELSE IF req.file.type # "application/pdf" THEN ErrorResponse(400)
    ELSE IF req.file.size >= MAX_FILE_SIZE THEN ErrorResponse(400)
    ELSE NoResponse

\* the response of lines 152-171 to a request the handler turns away, or
\* NoResponse for a request it goes on with
PostRejection(req) ==
    IF req.userId = NoUserId THEN ErrorResponse(401)
    ELSE IF ~req.file.present THEN ErrorResponse(400)
    ELSE IF req.file.type # "application/pdf" THEN ErrorResponse(400)
    ELSE IF req.file.size > MAX_FILE_SIZE THEN ErrorResponse(400)
    ELSE NoResponse

\* the file path of lines 181-183: fileId is new at every call
FilePath(req) == req.n

\* the id the database gives the row of a request
RowId(req) == req.n

\* lines 149-171: a request arrives; the session and the file are checked
PostStart(userId, file, pdf) ==
    /\ pc = "idle"
    /\ clock < MaxRequests
    /\ clock' = clock + 1
    /\ request' = [n |-> clock + 1, userId |-> userId, file |-> file]
    /\ pdfResult' = pdf
    /\ info' = NotRun
    /\ LET rejection == PostRejection(request')
       IN  IF rejection # NoResponse
           THEN pc' = "done" /\ response' = rejection
           ELSE pc' = "write" /\ response' = NoResponse
    /\ UNCHANGED <<uploads, papers, history, partial, handlers, components>>

\* lines 174-186: ensureUploadDir and writeFile, which may throw (line 221)
PostWriteFile(ok) ==
    /\ pc = "write"
    /\ IF ok
       THEN /\ uploads' = uploads \cup {FilePath(request)}
            /\ pc' = "extract"
            /\ UNCHANGED response
       ELSE /\ pc' = "done"
            /\ response' = CaughtResponse("writeFile")
            /\ UNCHANGED uploads
    /\ UNCHANGED <<pdfResult, info, request, papers, clock, history, partial, handlers, components>>

\* (mutant) the handler turns a document away when its text cannot be read
PostExtract_RejectsUnreadable ==
    /\ pc = "extract"
    /\ info' = extractBasicInfo(pdfResult)
    /\ IF info'.kind = "return" /\ ~pdfResult.rejects /\ pdfResult.text # Undefined
       THEN pc' = "create" /\ UNCHANGED response
       ELSE pc' = "done" /\ response' = ErrorResponse(500)
    /\ UNCHANGED <<pdfResult, request, uploads, papers, clock, history, partial, handlers, components>>

\* line 189: await extractBasicInfo(buffer); a rejection goes to line 221
PostExtract ==
    /\ pc = "extract"
    /\ info' = extractBasicInfo(pdfResult)
    /\ IF info'.kind = "return"
       THEN pc' = "create" /\ UNCHANGED response
       ELSE pc' = "done" /\ response' = CaughtResponse("extractBasicInfo")
    /\ UNCHANGED <<pdfResult, request, uploads, papers, clock, history, partial, handlers, components>>

\* lines 192-219: prisma.paper.create, which may throw (line 221), and the
\* response
PostCreate(ok) ==
    /\ pc = "create"
    /\ IF ok
       THEN /\ papers' = papers \cup
                   {PaperRow(RowId(request), info.value, FilePath(request),
                             request.userId)}
            /\ response' = SuccessResponse(RowId(request))
       ELSE /\ response' = CaughtResponse("prisma.paper.create")
            /\ UNCHANGED papers
    /\ pc' = "done"
    /\ UNCHANGED <<pdfResult, info, request, uploads, clock, history, partial, handlers, components>>

\* the handler has returned; the next request can come
PostReturn ==
    /\ pc = "done"
    /\ pc' = "idle"
    /\ UNCHANGED <<pdfResult, info, request, uploads, papers, response, clock,
                   history, partial, handlers, components>>

-----------------------------------------------------------------------------
(* GET /api/papers, and GET, PUT and DELETE /api/papers/[id] *)

\* requests to these routes the model serves before it stops
MaxHandlers == 2
Slots == 1..MaxHandlers

\* what the POST handler owns
postState == <<pdfResult, info, pc, request, response, clock, history, partial>>

\* the body of a PUT that names no property
EmptyBody ==
    [title |-> Undefined, authors |-> Undefined, abstract |-> Undefined,
     doi |-> Undefined, publicationDate |-> Undefined, journal |-> Undefined,
     volume |-> Undefined, issue |-> Undefined, pages |-> Undefined,
     details |-> [exists |-> FALSE, summary |-> Undefined,
                  methodology |-> Undefined, benefits |-> Undefined,
                  verification |-> Undefined, discussion |-> Undefined,
                  tags |-> Undefined]]

\* a request that has not arrived
NoHandler ==
    [op |-> "none", pc |-> "free", userId |-> NoUserId, id |-> 0,
     body |-> EmptyBody, query |-> [page |-> 1, limit |-> 10, search |-> <<>>],
     pdfPath |-> 0, logged |-> FALSE, status |-> 0, error |-> "none",
     result |-> <<>>, total |-> 0]

\* the request of slot s becomes h; requests take the slots in order of arrival
Arrives(s, h) ==
    /\ handlers[s].pc = "free"
    /\ \A t \in Slots : t < s => handlers[t].pc # "free"
    /\ handlers' = [handlers EXCEPT ![s] = h]

\* NextResponse.json of a handler: the status, the error that was caught, if
\* there was one, and the papers of the body
Answer(h, status, error, result) ==
    [h EXCEPT !.pc = "done", !.status = status, !.error = error, !.result = result]

\* (mutant) the owner is left out of the where
findFirst_AnyOwner(id, userId) == {r \in papers : r.id = id}

\* prisma.paper.findFirst({ where: { id, userId } }): the rows it can return
findFirst(id, userId) == {r \in papers : r.id = id /\ r.userId = userId}

\* lines 15-32 of a handler of [id]/route.ts: the session check, findFirst,
\* which may throw, and the 404; otherwise the handler h goes on
Check(s, h, ok, goesOn) ==
    Arrives(s, IF h.userId = NoUserId THEN Answer(h, 401, "none", <<>>)
               ELSE IF ~ok THEN Answer(h, 500, "unavailable", <<>>)
               ELSE IF findFirst(h.id, h.userId) = {} THEN Answer(h, 404, "none", <<>>)
               ELSE goesOn)

\* GET /api/papers/[id], lines 8-60
GetPaper(s, userId, id, ok) ==
    /\ LET h == [NoHandler EXCEPT !.op = "GET", !.userId = userId, !.id = id]
       IN  Check(s, h, ok,
                 Answer(h, 200, "none",
                        <<CHOOSE r \in findFirst(id, userId) : TRUE>>))
    /\ UNCHANGED <<uploads, papers, postState, components>>

\* contains, mode: 'insensitive'
ContainsCI(x, search) ==
    /\ x # Null
    /\ \E p \in 1..Len(x) : MatchAtCI(x, p, [k \in 1..Len(search) |-> ToLower(search[k])])

\* the where of lines 244-256
Where(userId, search) ==
    {r \in papers :
        /\ r.userId = userId
        /\ \/ search = <<>>
           \/ ContainsCI(r.title, search)
           \/ ContainsCI(r.abstract, search)
           \/ ContainsCI(r.journal, search)
           \/ \E i \in 1..Len(r.authors) : r.authors[i] = search}

\* orderBy: { createdAt: 'desc' }; the rows are numbered as they are created
NewestFirst(rows) ==
    CHOOSE q \in [1..Cardinality(rows) -> rows] :
        \A i, j \in 1..Cardinality(rows) : i < j => q[i].id > q[j].id

\* GET /api/papers, lines 230-266: the session check and findMany with skip
\* and take
ListFindMany(s, userId, query, ok) ==
    /\ LET h == [NoHandler EXCEPT !.op = "LIST", !.userId = userId, !.query = query]
           all == NewestFirst(Where(userId, query.search))
           skip == (query.page - 1) * query.limit
       IN  Arrives(s, IF userId = NoUserId THEN Answer(h, 401, "none", <<>>)
                      ELSE IF ~ok THEN Answer(h, 500, "unavailable", <<>>)
                      ELSE [h EXCEPT !.pc = "count",
                                     !.result = SubSeq(all, skip + 1,
                                                       Min2(skip + query.limit, Len(all)))])
    /\ UNCHANGED <<uploads, papers, postState, components>>

\* lines 268-279: count and the response
ListCount(s, ok) ==
    /\ handlers[s].pc = "count"
    /\ LET h == handlers[s]
       IN  handlers' = [handlers EXCEPT ![s] =
               IF ok THEN [Answer(h, 200, "none", h.result) EXCEPT
                              !.total = Cardinality(Where(h.userId, h.query.search))]
               ELSE Answer(h, 500, "unavailable", <<>>)]
    /\ UNCHANGED <<uploads, papers, postState, components>>

\* PUT, lines 62-97: the session check, the body and findFirst
PutCheck(s, userId, id, body, ok) ==
    /\ LET h == [NoHandler EXCEPT !.op = "PUT", !.userId = userId, !.id = id,
                                  !.body = body]
       IN  Check(s, h, ok, [h EXCEPT !.pc = "update"])
    /\ UNCHANGED <<uploads, papers, postState, components>>

\* new Date(s) for s of the form yyyy-mm-dd
NewDateOfString(s) ==
    <<ParseInt(SubSeq(s, 1, 4)), ParseInt(SubSeq(s, 6, 7)), ParseInt(SubSeq(s, 9, 10))>>

\* a value that is truthy: not undefined, not null, not ''
Truthy(x) == x \notin {Undefined, Null, <<>>}

\* the row after prisma.paper.update with the data of lines 102-112: a
\* property that is undefined is not written
UpdatedRow(r, body) ==
    LET Set(old, new) == IF new = Undefined THEN old ELSE new
    IN  [r EXCEPT !.title = Set(@, body.title),
                  !.authors = Set(@, body.authors),
                  !.abstract = Set(@, body.abstract),
                  !.doi = Set(@, body.doi),
                  !.publicationDate = IF Truthy(body.publicationDate)
                                      THEN NewDateOfString(body.publicationDate)
                                      ELSE Null,
                  !.journal = Set(@, body.journal),
                  !.volume = Set(@, body.volume),
                  !.issue = Set(@, body.issue),
                  !.pages = Set(@, body.pages)]

\* lines 100-113: prisma.paper.update({ where: { id } }), which throws when
\* the database fails and when no row has the id; lines 139-142 follow when
\* the body has no details
PutUpdate(s, ok) ==
    /\ handlers[s].pc = "update"
    /\ LET h == handlers[s]
           rows == {r \in papers : r.id = h.id}
       IN  IF ~ok \/ rows = {}
           THEN /\ handlers' = [handlers EXCEPT ![s] =
                       Answer(h, 500, IF ok THEN "not found" ELSE "unavailable", <<>>)]
                /\ UNCHANGED papers
           ELSE LET r == CHOOSE r \in rows : TRUE
                    updatedPaper == UpdatedRow(r, h.body)
                IN  /\ papers' = (papers \ {r}) \cup {updatedPaper}
                    /\ handlers' = [handlers EXCEPT ![s] =
                           IF h.body.details.exists
                           THEN [h EXCEPT !.pc = "upsert", !.result = <<updatedPaper>>]
                           ELSE Answer(h, 200, "none", <<updatedPaper>>)]
    /\ UNCHANGED <<uploads, postState, components>>

\* the paperDetails row after the upsert of lines 117-136: update leaves out
\* what is undefined, create stores null for it
UpsertedDetails(old, details) ==
    LET Set(was, new) == IF new = Undefined THEN was ELSE new
    IN  [exists |-> TRUE,
         summary |-> Set(old.summary, details.summary),
         methodology |-> Set(old.methodology, details.methodology),
         benefits |-> Set(old.benefits, details.benefits),
         verification |-> Set(old.verification, details.verification),
         discussion |-> Set(old.discussion, details.discussion),
         tags |-> IF details.tags \in {Undefined, Null} THEN <<>> ELSE details.tags]

\* lines 116-142: prisma.paperDetails.upsert, which throws when the database
\* fails and when the paper it refers to is gone, and the response
PutUpsert(s, ok) ==
    /\ handlers[s].pc = "upsert"
    /\ LET h == handlers[s]
           rows == {r \in papers : r.id = h.id}
       IN  IF ~ok \/ rows = {}
           THEN /\ handlers' = [handlers EXCEPT ![s] =
                       Answer(h, 500, IF ok THEN "not found" ELSE "unavailable", <<>>)]
                /\ UNCHANGED papers
           ELSE LET r == CHOOSE r \in rows : TRUE
                IN  /\ papers' = (papers \ {r}) \cup
                           {[r EXCEPT !.details = UpsertedDetails(@, h.body.details)]}
                    /\ handlers' = [handlers EXCEPT ![s] = Answer(h, 200, "none", h.result)]
    /\ UNCHANGED <<uploads, postState, components>>

\* DELETE, lines 153-174: the session check and findFirst
DeleteCheck(s, userId, id, ok) ==
    /\ LET h == [NoHandler EXCEPT !.op = "DELETE", !.userId = userId, !.id = id]
       IN  Check(s, h, ok,
                 [h EXCEPT !.pc = "unlink",
                           !.pdfPath = (CHOOSE r \in findFirst(id, userId) :
                                            TRUE).pdfPath])
    /\ UNCHANGED <<uploads, papers, postState, components>>

\* (mutant) an error of unlink ends the request
DeleteUnlink_Throws(s, ok) ==
    /\ handlers[s].pc = "unlink"
    /\ uploads' = IF ok THEN uploads \ {handlers[s].pdfPath} ELSE uploads
    /\ handlers' = [handlers EXCEPT ![s] =
           IF ok /\ handlers[s].pdfPath \in uploads
           THEN [@ EXCEPT !.pc = "delete"]
           ELSE Answer([@ EXCEPT !.logged = TRUE], 500, "unlink", <<>>)]
    /\ UNCHANGED <<papers, postState, components>>

\* lines 176-184: unlink(paper.pdfPath), which throws when the file system
\* fails and when the file is not there; the error is logged and dropped
DeleteUnlink(s, ok) ==
    /\ handlers[s].pc = "unlink"
    /\ uploads' = IF ok THEN uploads \ {handlers[s].pdfPath} ELSE uploads
    /\ handlers' = [handlers EXCEPT ![s].pc = "delete",
                                    ![s].logged = ~(ok /\ handlers[s].pdfPath \in uploads)]
    /\ UNCHANGED <<papers, postState, components>>

\* lines 186-202: prisma.paper.delete({ where: { id } }), which throws when
\* the database fails and when no row has the id, and the response
DeleteRow(s, ok) ==
    /\ handlers[s].pc = "delete"
    /\ LET h == handlers[s]
           rows == {r \in papers : r.id = h.id}
       IN  IF ~ok \/ rows = {}
           THEN /\ handlers' = [handlers EXCEPT ![s] =
                       Answer(h, 500, IF ok THEN "not found" ELSE "unavailable", <<>>)]
                /\ UNCHANGED papers
           ELSE /\ papers' = papers \ rows
                /\ handlers' = [handlers EXCEPT ![s] = Answer(h, 200, "none", <<>>)]
    /\ UNCHANGED <<uploads, postState, components>>

-----------------------------------------------------------------------------
(* FileUpload *)

\* the default props of lines 26-28
maxFiles == 10
maxSize == 50
acceptedTypes == {"application/pdf"}

\* files that are given to the component before the model stops
MaxAdded == 12

\* the component as it is mounted: no file, and no file has been given an id
NoFileUpload == [files |-> <<>>, added |-> 0]

\* lines 35-47: the reason a file is refused for, or null
validateFile(file) ==
    IF file.size > maxSize * 1024 * 1024 THEN <<"size">>
    ELSE IF file.type \notin acceptedTypes THEN <<"type">>
    ELSE Null

\* lines 57-60: the entries made of the files that pass, the k-th of them
\* with the k-th new id
NewEntries(valid, added) ==
    [k \in 1..Len(valid) |-> [id |-> added + k, file |-> valid[k], status |-> "pending"]]

\* (mutant) the excess is dropped from the front of the list
addFiles_KeepsLatest(newFiles) ==
    /\ LET valid == SelectSeq(newFiles, LAMBDA f : validateFile(f) = Null)
           updated == fileUpload.files \o NewEntries(valid, fileUpload.added)
       IN  /\ fileUpload.added + Len(valid) <= MaxAdded
           /\ fileUpload' =
                  [files |-> IF Len(updated) > maxFiles
                             THEN SubSeq(updated, Len(updated) - maxFiles + 1, Len(updated))
                             ELSE updated,
                   added |-> fileUpload.added + Len(valid)]
    /\ UNCHANGED <<uploads, papers, postState, handlers, uploadPage, papersPage>>

\* lines 49-82: the files that pass validateFile are appended, and the list
\* is cut to its first maxFiles entries
addFiles(newFiles) ==
    /\ LET valid == SelectSeq(newFiles, LAMBDA f : validateFile(f) = Null)
           updated == fileUpload.files \o NewEntries(valid, fileUpload.added)
       IN  /\ fileUpload.added + Len(valid) <= MaxAdded
           /\ fileUpload' =
                  [files |-> IF Len(updated) > maxFiles
                             THEN SubSeq(updated, 1, maxFiles)
                             ELSE updated,
                   added |-> fileUpload.added + Len(valid)]
    /\ UNCHANGED <<uploads, papers, postState, handlers, uploadPage, papersPage>>

\* lines 84-86, for the button of an entry of the list
removeFile(id) ==
    /\ \E i \in 1..Len(fileUpload.files) : fileUpload.files[i].id = id
    /\ fileUpload' = [fileUpload EXCEPT !.files = SelectSeq(@, LAMBDA e : e.id # id)]
    /\ UNCHANGED <<uploads, papers, postState, handlers, uploadPage, papersPage>>

\* line 225: the button that clears the list, shown when the list has entries
clearFiles ==
    /\ fileUpload.files # <<>>
    /\ fileUpload' = [fileUpload EXCEPT !.files = <<>>]
    /\ UNCHANGED <<uploads, papers, postState, handlers, uploadPage, papersPage>>

-----------------------------------------------------------------------------
(* UploadPage *)

\* calls of handleUpload the model makes before it stops
MaxUploads == 2
\* files the page has in its list at most
MaxSelected == 3

\* lines 13-15, and what the page has done: the files handleUpload works on
\* and how far it is, the files sent and how their fetches settled, the
\* calls of handleUpload made so far, and the route the browser shows; the
\* progress is a fraction
NoUploadPage ==
    [isUploading |-> FALSE, uploadProgress |-> <<0, 1>>, uploadedFiles |-> <<>>,
     pc |-> "idle", batch |-> <<>>, i |-> 0, sent |-> <<>>, settled |-> <<>>,
     calls |-> 0, route |-> "/upload"]

\* lines 30-43: a selection with a file that is no PDF is refused whole
handleFileSelect(files) ==
    /\ uploadPage.route = "/upload"
    /\ Len(uploadPage.uploadedFiles) + Len(files) <= MaxSelected
    /\ uploadPage' =
           IF \E k \in 1..Len(files) : files[k].type # "application/pdf"
           THEN uploadPage
           ELSE [uploadPage EXCEPT !.uploadedFiles = @ \o files]
    /\ UNCHANGED <<uploads, papers, postState, handlers, fileUpload, papersPage>>

\* lines 81-83
removeUploadedFile(index) ==
    /\ uploadPage.route = "/upload"
    /\ index \in 1..Len(uploadPage.uploadedFiles)
    /\ uploadPage' = [uploadPage EXCEPT !.uploadedFiles =
           [k \in 1..(Len(@) - 1) |-> IF k < index THEN @[k] ELSE @[k + 1]]]
    /\ UNCHANGED <<uploads, papers, postState, handlers, fileUpload, papersPage>>

\* line 227: the button that clears the list
clearUploadedFiles ==
    /\ uploadPage.route = "/upload"
    /\ uploadPage.uploadedFiles # <<>>
    /\ uploadPage' = [uploadPage EXCEPT !.uploadedFiles = <<>>]
    /\ UNCHANGED <<uploads, papers, postState, handlers, fileUpload, papersPage>>

\* lines 45-58: handleUpload is called (its button is disabled while
\* isUploading); with files in the list it sends the first and awaits
handleUpload ==
    /\ ~uploadPage.isUploading
    /\ uploadPage.route = "/upload"
    /\ uploadPage.calls < MaxUploads
    /\ uploadPage' =
           IF Len(uploadPage.uploadedFiles) = 0
           THEN [uploadPage EXCEPT !.calls = @ + 1]
           ELSE [uploadPage EXCEPT !.calls = @ + 1,
                                   !.isUploading = TRUE,
                                   !.uploadProgress = <<0, 1>>,
                                   !.pc = "fetch",
                                   !.batch = uploadPage.uploadedFiles,
                                   !.i = 0,
                                   !.sent = <<uploadPage.uploadedFiles[1]>>,
                                   !.settled = <<>>]
    /\ UNCHANGED <<uploads, papers, postState, handlers, fileUpload, papersPage>>

\* (mutant) a response that is not OK is passed over
FetchSettles_IgnoresNotOk(outcome) ==
    /\ uploadPage.pc = "fetch"
    /\ LET u == uploadPage
           n == Len(u.batch)
       IN  uploadPage' =
               IF outcome \in {"ok", "not ok"} /\ u.i + 1 < n
               THEN [u EXCEPT !.uploadProgress = <<(u.i + 1) * 100, n>>,
                              !.i = u.i + 1,
                              !.settled = Append(@, outcome),
                              !.sent = Append(@, u.batch[u.i + 2])]
               ELSE [u EXCEPT !.pc = "idle",
                              !.settled = Append(@, outcome),
                              !.route = IF outcome \in {"ok", "not ok"} THEN "/papers" ELSE @,
                              !.isUploading = FALSE,
                              !.uploadProgress = <<0, 1>>,
                              !.uploadedFiles = <<>>]
    /\ UNCHANGED <<uploads, papers, postState, handlers, fileUpload, papersPage>>

\* lines 57-78: the fetch of file i settles: with an OK response the
\* progress is set and the next file is sent, or after the last file the
\* router is pushed; a response that is not OK and a rejected fetch go to the
\* catch; the finally block ends the call
FetchSettles(outcome) ==
    /\ uploadPage.pc = "fetch"
    /\ LET u == uploadPage
           n == Len(u.batch)
       IN  uploadPage' =
               IF outcome = "ok" /\ u.i + 1 < n
               THEN [u EXCEPT !.uploadProgress = <<(u.i + 1) * 100, n>>,
                              !.i = u.i + 1,
                              !.settled = Append(@, outcome),
                              !.sent = Append(@, u.batch[u.i + 2])]
               ELSE [u EXCEPT !.pc = "idle",
                              !.settled = Append(@, outcome),
                              !.route = IF outcome = "ok" THEN "/papers" ELSE @,
                              !.isUploading = FALSE,
                              !.uploadProgress = <<0, 1>>,
                              !.uploadedFiles = <<>>]
    /\ UNCHANGED <<uploads, papers, postState, handlers, fileUpload, papersPage>>

-----------------------------------------------------------------------------
(* PapersPage *)

\* fetches the page issues before the model stops
MaxFetches == 4

\* lines 42-50, the status of the session, and what the page has done: the
\* fetches in flight, and the fetches issued and failed so far
NoPapersPage ==
    [status |-> "loading", papers |-> <<>>, loading |-> TRUE,
     searchTerm |-> <<>>,
     pagination |-> [page |-> 1, limit |-> 10, total |-> 0, totalPages |-> 0],
     fetches |-> {}, issued |-> 0, failed |-> 0]

\* lines 58-67: fetchPapers of the render p sets loading and sends the
\* request for the page and the search term of that render
fetchPapers(p) ==
    [p EXCEPT !.loading = TRUE,
              !.issued = @ + 1,
              !.fetches = @ \cup {[n |-> p.issued + 1, page |-> p.pagination.page,
                                   limit |-> p.pagination.limit,
                                   search |-> p.searchTerm]}]

\* lines 52-56: after the render p that follows the render old, the effect
\* runs fetchPapers when the session is there and a dependency has changed
useEffect(old, p) ==
    IF /\ p.status = "authenticated"
       /\ <<p.status, p.pagination.page, p.searchTerm>> #
              <<old.status, old.pagination.page, old.searchTerm>>
    THEN fetchPapers(p)
    ELSE p

\* a render of the page follows render p; the model stops issuing fetches
\* at MaxFetches
Renders(p) ==
    /\ papersPage' = useEffect(papersPage, p)
    /\ papersPage'.issued <= MaxFetches
    /\ UNCHANGED <<uploads, papers, postState, handlers, fileUpload, uploadPage>>

\* useSession: the session has loaded
SessionLoads ==
    /\ papersPage.status = "loading"
    /\ Renders([papersPage EXCEPT !.status = "authenticated"])

\* line 135: the search box, which is there once the session is, changes
setSearchTerm(term) ==
    /\ papersPage.status = "authenticated"
    /\ term # papersPage.searchTerm
    /\ Renders([papersPage EXCEPT !.searchTerm = term])

\* lines 82-85: the search form is submitted
handleSearch ==
    /\ papersPage.status = "authenticated"
    /\ papersPage.pagination.page # 1
    /\ Renders([papersPage EXCEPT !.pagination.page = 1])

\* lines 87-89, for the buttons of lines 302-335
handlePageChange(newPage) ==
    /\ papersPage.status = "authenticated"
    /\ papersPage.pagination.totalPages > 1
    /\ newPage \in 1..papersPage.pagination.totalPages
    /\ newPage # papersPage.pagination.page
    /\ Renders([papersPage EXCEPT !.pagination.page = newPage])

\* the answer of GET /api/papers to a fetch when `total` papers match its
\* search term: the papers are named by the query they answer
ListResponse(f, total) ==
    [papers |-> <<f.search, f.page>>,
     pagination |-> [page |-> f.page, limit |-> f.limit, total |-> total,
                     totalPages |-> (total + f.limit - 1) \div f.limit]]

\* lines 68-79: the fetch f settles; an OK response sets papers and
\* pagination, anything else is logged, and loading is set to false
FetchPapersSettles(f, ok, total) ==
    /\ f \in papersPage.fetches
    /\ LET p == [papersPage EXCEPT !.fetches = @ \ {f}, !.loading = FALSE]
       IN  Renders(IF ok
                   THEN [p EXCEPT !.papers = ListResponse(f, total).papers,
                                  !.pagination = ListResponse(f, total).pagination]
                   ELSE [p EXCEPT !.failed = @ + 1])

-----------------------------------------------------------------------------
(* Calls of extractBasicInfo on its own *)

NoPartial ==
    [title |-> Undefined, authors |-> Undefined, abstract |-> Undefined,
     doi |-> Undefined, publicationDate |-> Undefined, journal |-> Undefined]

\* the state before any call, for the buffer whose parse is pdf
StartWith(pdf) ==
    /\ pdfResult = pdf
    /\ info = NotRun
    /\ pc = "idle"
    /\ request = NoRequest
    /\ uploads = {}
    /\ papers = {}
    /\ response = NoResponse
    /\ clock = 0
    /\ history = <<>>
    /\ partial = NoPartial
    /\ handlers = [s \in Slots |-> NoHandler]
    /\ fileUpload = NoFileUpload
    /\ uploadPage = NoUploadPage
    /\ papersPage = NoPapersPage

\* extractBasicInfo(pdfBuffer) is called and completes
CallExtractBasicInfo ==
    /\ info.kind = "notrun"
    /\ info' = extractBasicInfo(pdfResult)
    /\ UNCHANGED <<pdfResult, pc, request, uploads, papers, response, clock,
                   history, partial, handlers, components>>

NextExtract == CallExtractBasicInfo

\* calls of extractBasicInfo the model makes before it stops
MaxCalls == 3

\* extractBasicInfo is called once more, on the text t
CallAgain(t) ==
    /\ clock < MaxCalls
    /\ clock' = clock + 1
    /\ pdfResult' = PdfData(t)
    /\ info' = extractBasicInfo(pdfResult')
    /\ history' = Append(history, <<t, info'>>)
    /\ UNCHANGED <<pc, request, uploads, papers, response, partial, handlers, components>>

\* the six extractors of lines 36-41
Fields == {"title", "authors", "abstract", "doi", "publicationDate", "journal"}

Extractor(f, text) ==
    CASE f = "title" -> extractTitle(text)
      [] f = "authors" -> extractAuthors(text)
      [] f = "abstract" -> extractAbstract(text)
      [] f = "doi" -> extractDOI(text)
      [] f = "publicationDate" -> extractPublicationDate(text)
      [] f = "journal" -> extractJournal(text)

\* one of lines 36-41 runs, in whatever order
RunExtractor(f) ==
    /\ info.kind = "notrun"
    /\ partial[f] = Undefined
    /\ partial' = [partial EXCEPT ![f] = Extractor(f, pdfResult.text)]
    /\ pc' = f
    /\ UNCHANGED <<pdfResult, info, request, uploads, papers, response, clock, history, handlers, components>>

\* lines 43-50, once the six extractors have run
AssembleInfo ==
    /\ info.kind = "notrun"
    /\ \A f \in Fields : partial[f] # Undefined
    /\ info' = Return([title |-> OrElse(partial.title, SentinelTitle),
                       authors |-> partial.authors,
                       abstract |-> partial.abstract,
                       doi |-> partial.doi,
                       publicationDate |-> partial.publicationDate,
                       journal |-> partial.journal])
    /\ UNCHANGED <<pdfResult, pc, request, uploads, papers, response, clock,
                   history, partial, handlers, components>>

-----------------------------------------------------------------------------
(* Input texts *)

\* n times the character c
Filler(c, n) == [i \in 1..n |-> c]

RECURSIVE Concats(_, _)
\* the texts made of n tokens of the set T
Concats(T, n) ==
    IF n = 0 THEN {<<>>}
    ELSE {t \o rest : t \in T, rest \in Concats(T, n - 1)}

RECURSIVE Repeat(_, _)
\* the text s, n times
Repeat(s, n) == IF n = 0 THEN <<>> ELSE s \o Repeat(s, n - 1)

\* what pdf() can do besides resolving to a text
PdfFailures == {PdfRejects, PdfData(Undefined)}

T_DeepModel == <<"D","e","e","p"," ","M","o","d","e","l">>
T_RelatedWork == <<"R","E","L","A","T","E","D"," ","W","O","R","K">>
T_DeepTabModels == <<"D","e","e","p","\t","M","o","d","e","l","s">>
T_Abstract == <<"A","b","s","t","r","a","c","t">>
T_SecondTitle == <<"\n","S","e","c","o","n","d"," ","t","i","t","l","e">>

\* tokens a line is made of: a line one character too short to be a title,
\* single characters, a filler that takes a line to the upper length limit,
\* an upper-case line, a line whose only whitespace is a tab, a section name,
\* a list marker
TitleTokens ==
    { <<>>, T_DeepModel, <<"s">>, <<" ">>, <<"2">>, <<"1", ".">>,
      Filler("x", TitleMaxLen - 1 - Len(T_DeepModel)),
      T_RelatedWork, T_DeepTabModels, T_Abstract }

\* tokens in a line
MaxLineTokens == 3

\* a line alone or followed by a line that is accepted as title, as the
\* first line, as the last line scanned, or as the first line not scanned
TitleTexts ==
    { Repeat(<<"x", "\n">>, k) \o line \o after :
        k \in {0, TitleScanLines - 1, TitleScanLines},
        line \in Concats(TitleTokens, MaxLineTokens),
        after \in {<<>>, T_SecondTitle} }

InitTitle == \E pdf \in PdfFailures \cup {PdfData(t) : t \in TitleTexts} : StartWith(pdf)
SpecTitle == InitTitle /\ [][NextExtract]_vars

T_Title == <<"A"," ","S","t","u","d","y"," ","o","f"," ","T","h","i","n","g","s">>
T_JohnSmith == <<"J","o","h","n"," ","S","m","i","t","h">>
T_AnnLee == <<" ","A","n","n","\t","L","e","e"," ">>
T_AStudy == <<"A"," ","S","t","u","d","y">>
T_AbstractArt == <<"A","b","s","t","r","a","c","t"," ","A","r","t">>
T_AbstractColon == <<"A","b","s","t","r","a","c","t",":"," ">>
T_Body == <<"w","e"," ","t","e","s","t"," ","i","t"," ">>
T_Introduction == <<"I","n","t","r","o","d","u","c","t","i","o","n">>
T_Doi == <<"D","O","I",":"," ","1","0",".","1","0","0","0","/","x","y","z","1","2","3">>
T_DateNen == <<"2","0","2","3",Nen,"5",Gatsu>>
T_DateDash == <<"2","0","2","3","-","0","6","-","0","7">>
T_JournalOf == <<"J","o","u","r","n","a","l"," ","o","f"," ","C","o","m","p","u","t","i","n","g",
                 ","," ","2","0","2","0">>
T_PublishedIn == <<"P","u","b","l","i","s","h","e","d"," ","i","n"," ","X","Y","Z"," ",
                   "M","a","g","a","z","i","n","e">>

\* tokens that give every extractor something to find
MixedTokens ==
    { <<>>, <<"\n">>, T_Title, T_JohnSmith, T_AbstractColon, T_Body, T_Introduction,
      T_Doi, T_DateNen, T_DateDash, T_JournalOf, T_PublishedIn }

\* tokens in a mixed text
MaxTokens == 3

MixedTexts == Concats(MixedTokens, MaxTokens)

Init == \E pdf \in PdfFailures \cup {PdfData(t) : t \in MixedTexts} : StartWith(pdf)
Spec == Init /\ [][NextExtract]_vars

\* lines of an author block: a name, a name with a tab between its words and
\* spaces around it, a line whose first word is a single capital, a section
\* title that looks like a name
AuthorLines ==
    { T_JohnSmith \o <<"\n">>, T_AnnLee \o <<"\n">>, T_AStudy \o <<"\n">>,
      T_AbstractArt \o <<"\n">> }

\* lines in an author block
MaxAuthorLines == 6

\* an author block at the top of the text, or so far down that its last line
\* is the first line not scanned
AuthorTexts ==
    { Repeat(<<"x", "\n">>, k) \o block :
        k \in {0, AuthorScanLines + 1 - MaxAuthorLines},
        block \in Concats(AuthorLines, MaxAuthorLines) }

InitAuthors == \E pdf \in PdfFailures \cup {PdfData(t) : t \in AuthorTexts} : StartWith(pdf)
SpecAuthors == InitAuthors /\ [][NextExtract]_vars

\* a body of two lines followed by a terminator
T_BodyThenKeyWords ==
    <<"w","e","\n","d","o"," ","K","e","y"," ","w","o","r","d","s",":"," ","x"," ">>

\* tokens around an abstract: the marker, its colon, whitespace, a body longer
\* than the cut, the terminators
AbstractTokens ==
    { <<>>, T_Abstract, <<":">>, <<" ">>, <<"\n">>, Filler("y", AbstractMaxLen + 1),
      T_Introduction, <<"1", ".">>, <<"K","e","y">>, <<"w","o","r","d","s">>,
      T_BodyThenKeyWords }

\* tokens in a text with an abstract
MaxAbstractTokens == 3

AbstractTexts == Concats(AbstractTokens, MaxAbstractTokens)

InitAbstract == \E pdf \in PdfFailures \cup {PdfData(t) : t \in AbstractTexts} : StartWith(pdf)
SpecAbstract == InitAbstract /\ [][NextExtract]_vars

\* tokens around a DOI: the label, its colon, whitespace, a token, a token
\* that holds the label, a token without digits after "10."
T_DoiToken == <<"1","0",".","1","0","0","0","/","x","y","z","1","2","3">>
T_DoiInToken == <<"1","0",".","5","/","d","o","i",":">>
T_NoDoiToken == <<"1","0",".","/","x">>
DoiTokens ==
    { <<>>, <<"D","O","I">>, <<":">>, <<" ">>, <<"\n">>, T_DoiToken, T_DoiInToken,
      T_NoDoiToken }

\* tokens in a text with a DOI
MaxDoiTokens == 4

DoiTexts == Concats(DoiTokens, MaxDoiTokens)

InitDoi == \E pdf \in PdfFailures \cup {PdfData(t) : t \in DoiTexts} : StartWith(pdf)
SpecDoi == InitDoi /\ [][NextExtract]_vars

\* a date in the third notation
T_DateSpace == <<"2","0","2","4"," ","0","8"," ","0","9">>

\* tokens of the texts that hold several dates
PriorityTokens == { T_DateNen, T_DateDash, T_DateSpace, <<" ">>, <<"x">> }

\* tokens in a text with several dates
MaxDateTokens == 3

\* the digit strings of the texts that hold one date
YearDigits == { <<"2","0","2","3">>, <<"2","0","2","4">>, <<"0","0","9","9">>,
                <<"0","0","0","0">>, <<"9","9","9","9">> }
MonthDigits == { <<"1">>, <<"0","2">>, <<"1","2">>, <<"1","3">>, <<"0">>, <<"0","0">>,
                 <<"9","9">> }
DayDigits == { <<"1">>, <<"0","1">>, <<"2","8">>, <<"2","9">>, <<"3","0">>, <<"3","1">>,
               <<"3","2">>, <<"0">>, <<"9","9">> }

\* one date in each notation
SingleDates ==
    {y \o <<Nen>> \o m \o <<Gatsu>> : y \in YearDigits, m \in MonthDigits}
    \cup UNION {{y \o sep \o m \o sep \o d : y \in YearDigits, m \in MonthDigits,
                                             d \in DayDigits}
                : sep \in {<<"-">>, <<"/">>, <<" ">>}}

DateTexts == SingleDates \cup Concats(PriorityTokens, MaxDateTokens)

InitDate == \E pdf \in PdfFailures \cup {PdfData(t) : t \in DateTexts} : StartWith(pdf)
SpecDate == InitDate /\ [][NextExtract]_vars

\* tokens around a journal: the three phrases with a name, a phrase with
\* nothing after it, a comma, whitespace
T_ProceedingsOf == <<"p","r","o","c","e","e","d","i","n","g","s"," ","o","f"," ","I","C","M","L">>
T_JournalOfNothing == <<"j","o","u","r","n","a","l","\t","o","f">>
JournalTokens ==
    { <<>>, T_JournalOf, T_PublishedIn, T_ProceedingsOf, T_JournalOfNothing,
      <<",">>, <<" ">>, <<"\n">> }

\* tokens in a text with a journal
MaxJournalTokens == 3

JournalTexts == Concats(JournalTokens, MaxJournalTokens)

InitJournal == \E pdf \in PdfFailures \cup {PdfData(t) : t \in JournalTexts} : StartWith(pdf)
SpecJournal == InitJournal /\ [][NextExtract]_vars

T_DeepModels == <<"D","e","e","p"," ","M","o","d","e","l","s">>

\* the texts extractBasicInfo is called on again and again
RepeatTexts == MixedTokens

\* the text of the first call: the state before it holds no text
InitRepeat == StartWith(PdfData(<<>>))
NextRepeat == \E t \in RepeatTexts : CallAgain(t)
SpecRepeat == InitRepeat /\ [][NextRepeat]_vars

\* tokens of the texts whose extractors run in any order; the first is a
\* title that also looks like an author
OrderTokens ==
    { T_DeepModels, <<"\n">>, T_JohnSmith, T_AbstractColon, T_Introduction,
      T_Doi, T_DateDash, T_PublishedIn }

\* tokens in a text whose extractors run in any order
MaxOrderTokens == 2

OrderTexts == Concats(OrderTokens \cup {<<>>}, MaxOrderTokens)

InitOrder == \E t \in OrderTexts : StartWith(PdfData(t))
NextOrder == (\E f \in Fields : RunExtractor(f)) \/ AssembleInfo
SpecOrder == InitOrder /\ [][NextOrder]_vars

\* what pdf() does for the buffers that are uploaded
PostPdfResults ==
    PdfFailures \cup {PdfData(<<>>), PdfData(T_Title \o <<"\n">> \o T_JohnSmith)}

InitPost == StartWith(PdfRejects)
NextPost ==
    \/ \E userId \in Users \cup {NoUserId}, file \in Files \cup {NoFile},
          pdf \in PostPdfResults : PostStart(userId, file, pdf)
    \/ \E ok \in BOOLEAN : PostWriteFile(ok)
    \/ PostExtract
    \/ \E ok \in BOOLEAN : PostCreate(ok)
    \/ PostReturn
SpecPost == InitPost /\ [][NextPost]_vars

\* the uploads, bodies and queries of the requests that are served together
ApiFile == [present |-> TRUE, type |-> "application/pdf", size |-> MAX_FILE_SIZE]
ApiPdf == PdfData(T_Title \o <<"\n">> \o T_DateDash)
T_IsoDate == <<"2","0","2","4","-","0","1","-","1","5">>
T_Summary == <<"s","u","m","m","a","r","y">>
BodyTitle == [EmptyBody EXCEPT !.title = T_DeepModels]
BodyDateAndDetails ==
    [EmptyBody EXCEPT !.publicationDate = T_IsoDate,
                      !.details.exists = TRUE,
                      !.details.summary = T_Summary]
Bodies == {BodyTitle, BodyDateAndDetails}
Queries ==
    {[page |-> 1, limit |-> 10, search |-> <<>>],
     [page |-> 2, limit |-> 1, search |-> <<>>],
     [page |-> 1, limit |-> 10, search |-> <<"s","t","u","d","y">>]}
PaperIds == 1..MaxRequests

InitApi == StartWith(PdfRejects)
NextApi ==
    \/ \E userId \in Users : PostStart(userId, ApiFile, ApiPdf)
    \/ \E ok \in BOOLEAN : PostWriteFile(ok)
    \/ PostExtract
    \/ \E ok \in BOOLEAN : PostCreate(ok)
    \/ PostReturn
    \/ \E s \in Slots, userId \in Users \cup {NoUserId}, id \in PaperIds,
          ok \in BOOLEAN : GetPaper(s, userId, id, ok)
    \/ \E s \in Slots, userId \in Users \cup {NoUserId}, query \in Queries,
          ok \in BOOLEAN : ListFindMany(s, userId, query, ok)
    \/ \E s \in Slots, ok \in BOOLEAN : ListCount(s, ok)
    \/ \E s \in Slots, userId \in Users \cup {NoUserId}, id \in PaperIds,
          body \in Bodies, ok \in BOOLEAN : PutCheck(s, userId, id, body, ok)
    \/ \E s \in Slots, ok \in BOOLEAN : PutUpdate(s, ok)
    \/ \E s \in Slots, ok \in BOOLEAN : PutUpsert(s, ok)
    \/ \E s \in Slots, userId \in Users \cup {NoUserId}, id \in PaperIds,
          ok \in BOOLEAN : DeleteCheck(s, userId, id, ok)
    \/ \E s \in Slots, ok \in BOOLEAN : DeleteUnlink(s, ok)
    \/ \E s \in Slots, ok \in BOOLEAN : DeleteRow(s, ok)
SpecApi == InitApi /\ [][NextApi]_vars

\* the files that are dropped on the component, and how many at a time
DroppedFiles ==
    {[present |-> TRUE, type |-> "application/pdf", size |-> MAX_FILE_SIZE],
     [present |-> TRUE, type |-> "application/pdf", size |-> MAX_FILE_SIZE + 1],
     [present |-> TRUE, type |-> "text/plain", size |-> MAX_FILE_SIZE - 1]}
MaxDropped == 3
Drops == UNION {[1..n -> DroppedFiles] : n \in 1..MaxDropped}

InitFileUpload == StartWith(PdfRejects)
NextFileUpload ==
    \/ \E newFiles \in Drops : addFiles(newFiles)
    \/ \E id \in 1..MaxAdded : removeFile(id)
    \/ clearFiles
SpecFileUpload == InitFileUpload /\ [][NextFileUpload]_vars

\* the files that are selected on the upload page, and how many at a time
SelectedFiles ==
    {[name |-> "a.pdf", type |-> "application/pdf"],
     [name |-> "b.pdf", type |-> "application/pdf"],
     [name |-> "c.txt", type |-> "text/plain"]}
Selections == UNION {[1..n -> SelectedFiles] : n \in 1..2}
\* how a fetch settles: an OK response, another response, a rejection
Outcomes == {"ok", "not ok", "rejected"}

InitUploadPage == StartWith(PdfRejects)
NextUploadPage ==
    \/ \E files \in Selections : handleFileSelect(files)
    \/ \E index \in 1..MaxSelected : removeUploadedFile(index)
    \/ clearUploadedFiles
    \/ handleUpload
    \/ \E outcome \in Outcomes : FetchSettles(outcome)
SpecUploadPage == InitUploadPage /\ [][NextUploadPage]_vars

\* what is typed into the search box, and how many papers of the user match
SearchTerms == {<<>>, <<"a">>, <<"a","b">>}
Matching(search) ==
    CASE search = <<>> -> 25
      [] search = <<"a">> -> 15
      [] OTHER -> 5

InitPapersPage == StartWith(PdfRejects)
NextPapersPage ==
    \/ SessionLoads
    \/ \E term \in SearchTerms : setSearchTerm(term)
    \/ handleSearch
    \/ \E newPage \in 1..3 : handlePageChange(newPage)
    \/ \E n \in 1..MaxFetches, page \in 1..3, search \in SearchTerms, ok \in BOOLEAN :
          FetchPapersSettles([n |-> n, page |-> page, limit |-> 10, search |-> search],
                             ok, Matching(search))
SpecPapersPage == InitPapersPage /\ [][NextPapersPage]_vars

-----------------------------------------------------------------------------
(* Claims about the title *)

\* the call has returned a result for a text
Extracted == info.kind = "return" /\ ~pdfResult.rejects /\ pdfResult.text # Undefined

\* the lines of the input text, and how many of them the title scan reads
InputLines == Split(pdfResult.text)
ScannedForTitle == 1..Min2(10, Len(InputLines))

\* t starts with one or more digits followed by a period
StartsWithListMarker(t) ==
    \E k \in 1..Len(t) :
        /\ k + 1 <= Len(t)
        /\ t[k + 1] = "."
        /\ \A j \in 1..k : t[j] \in Digit

\* t starts with the word w, in any letter case
StartsWithWord(t, w) ==
    /\ Len(t) >= Len(w)
    /\ \A j \in 1..Len(w) : t[j] = w[j] \/ (t[j] \in Upper /\ ToLower(t[j]) = w[j])

\* t consists of upper-case letters, with or without whitespace between them
OnlyUpperCaseLetters(t) ==
    /\ t # <<>>
    /\ \A j \in 1..Len(t) : t[j] \in Upper \/ t[j] \in WhiteSpace

\* the conditions of the title rule on a trimmed line, but for the last
QualifiesButForSpacing(t) ==
    /\ Len(t) > 10
    /\ Len(t) < 200
    /\ ~StartsWithListMarker(t)
    /\ ~StartsWithWord(t, W_abstract)
    /\ ~StartsWithWord(t, W_introduction)
    /\ ~StartsWithWord(t, W_conclusion)
    /\ ~OnlyUpperCaseLetters(t)

\* ... with the last condition read as "contains a whitespace character"
QualifiesWithWhitespace(t) ==
    QualifiesButForSpacing(t) /\ \E j \in 1..Len(t) : t[j] \in WhiteSpace

\* ... with the last condition read as "contains a space"
QualifiesWithSpace(t) ==
    QualifiesButForSpacing(t) /\ \E j \in 1..Len(t) : t[j] = " "

\* C2: the title of the result is never null, undefined or the empty string:
\* it is the sentinel, or the trimmed text of a line of the input that
\* extractTitle selected.
C2_TitleNeverEmpty ==
    info.kind = "return" =>
        /\ info.value.title # Null
        /\ info.value.title # Undefined
        /\ Len(info.value.title) > 0
        /\ \/ info.value.title = SentinelTitle
           \/ /\ Extracted
              /\ \E i \in ScannedForTitle : info.value.title = Trim(InputLines[i])

\* a text that is not empty and has no line to select: the sentinel is used
C2_Witness ==
    /\ Extracted
    /\ pdfResult.text # <<>>
    /\ \A i \in ScannedForTitle : ~QualifiesWithSpace(Trim(InputLines[i]))
    /\ info.value.title = SentinelTitle

C10_UpperCaseLineNeverTitle ==
    Extracted =>
        \A i \in 1..Len(InputLines) :
            OnlyUpperCaseLetters(InputLines[i]) =>
                info.value.title # Trim(InputLines[i])

\* the first line is upper case, has a space and a length within the bounds,
\* and is not the title
C10_Witness ==
    /\ Extracted
    /\ OnlyUpperCaseLetters(InputLines[1])
    /\ Len(InputLines[1]) > 10
    /\ Len(InputLines[1]) < 200
    /\ \E j \in 1..Len(InputLines[1]) : InputLines[1][j] = " "
    /\ info.value.title # InputLines[1]

-----------------------------------------------------------------------------
(* Claims about the result as a whole *)

\* an optional field that is not there
Absent(x) == x = Null \/ x = Undefined

\* C1: a call of extractBasicInfo never throws; when pdf() fails or a step of
\* the extraction raises, the call returns the sentinel title, no authors
\* and no other field.
C1_NeverThrows ==
    info.kind # "notrun" =>
        /\ info.kind = "return"
        /\ (pdfResult.rejects \/ pdfResult.text = Undefined) =>
              /\ info.value.title = SentinelTitle
              /\ info.value.authors = <<>>
              /\ Absent(info.value.abstract)
              /\ Absent(info.value.doi)
              /\ Absent(info.value.publicationDate)
              /\ Absent(info.value.journal)

\* pdf() has rejected and the call has returned
C1_Witness ==
    /\ pdfResult.rejects
    /\ info.kind = "return"
    /\ info.value.title = SentinelTitle

\* C5: for the empty text the call returns the sentinel title, no authors and
\* no other field.
C5_EmptyText ==
    (info.kind # "notrun" /\ pdfResult = PdfData(<<>>)) =>
        /\ info.kind = "return"
        /\ info.value.title = SentinelTitle
        /\ info.value.authors = <<>>
        /\ Absent(info.value.abstract)
        /\ Absent(info.value.doi)
        /\ Absent(info.value.publicationDate)
        /\ Absent(info.value.journal)

\* the call on the empty text has returned
C5_Witness ==
    /\ pdfResult = PdfData(<<>>)
    /\ info.kind = "return"

-----------------------------------------------------------------------------
(* Claims about authors and abstract *)

\* t starts with two capitalized words separated by whitespace
StartsWithTwoNames(t) ==
    \E a \in 2..Len(t) : \E b \in (a + 1)..Len(t) :
        /\ t[1] \in Upper
        /\ \A j \in 2..a : t[j] \in Lower
        /\ \A j \in (a + 1)..b : t[j] \in WhiteSpace
        /\ b + 2 <= Len(t)
        /\ t[b + 1] \in Upper
        /\ t[b + 2] \in Lower

\* the lines among the first 20 that look like an author
AuthorLikeLines ==
    {i \in 1..Min2(20, Len(InputLines)) :
        /\ StartsWithTwoNames(Trim(InputLines[i]))
        /\ ~StartsWithWord(Trim(InputLines[i]), W_abstract)
        /\ ~StartsWithWord(Trim(InputLines[i]), W_introduction)
        /\ ~StartsWithWord(Trim(InputLines[i]), W_conclusion)}

\* C3: the authors of the result are at most 5.
C3_AtMostFiveAuthors ==
    info.kind = "return" => Len(info.value.authors) <= 5

\* more than 5 of the first 20 lines look like an author, and 5 are returned
C3_Witness ==
    /\ Extracted
    /\ Cardinality(AuthorLikeLines) > 5
    /\ Len(info.value.authors) = 5

\* C4: an abstract that is present has at most 1000 characters.
C4_AbstractAtMost1000 ==
    (info.kind = "return" /\ ~Absent(info.value.abstract)) =>
        Len(info.value.abstract) <= 1000

\* more than 1000 characters lie between the marker and the terminator, and
\* 1000 are returned
C4_Witness ==
    /\ Extracted
    /\ AbstractMatch(pdfResult.text) # Null
    /\ Len(Trim(AbstractMatch(pdfResult.text))) > 1000
    /\ Len(info.value.abstract) = 1000

-----------------------------------------------------------------------------
(* Claims about the upload and about repeated and reordered extraction *)

\* the request is authenticated and carries a PDF of at most 50MB
AcceptableUpload ==
    /\ request.userId \in Users
    /\ request.file.present
    /\ request.file.type = "application/pdf"
    /\ request.file.size <= 50 * 1024 * 1024

\* the text extraction of the uploaded buffer fails
ExtractionFails == pdfResult.rejects \/ pdfResult.text = Undefined

\* the disk or the database failed the request
StorageFailed == response.thrownBy \in {"writeFile", "prisma.paper.create"}

\* C6: an acceptable upload whose text extraction fails is not turned away:
\* unless the disk or the database fails, the file is stored, a row with the
\* sentinel title and no authors is created for the session user, and the
\* response is a success.
C6_DegradedUploadIsStored ==
    (pc = "done" /\ AcceptableUpload /\ ExtractionFails /\ ~StorageFailed) =>
        /\ response.status = 200
        /\ FilePath(request) \in uploads
        /\ \E row \in papers :
              /\ row.id = response.paper
              /\ row.title = SentinelTitle
              /\ row.authors = <<>>
              /\ row.userId = request.userId
              /\ row.pdfPath = FilePath(request)

\* such an upload has been answered with success
C6_Witness ==
    /\ pc = "done"
    /\ AcceptableUpload
    /\ ExtractionFails
    /\ response.status = 200
    /\ \E row \in papers : row.id = response.paper /\ row.title = SentinelTitle

-----------------------------------------------------------------------------
(* More claims about the title *)

\* t contains letters but no lower-case letter
LettersButNoLowerCase(t) ==
    /\ \E j \in 1..Len(t) : t[j] \in Upper
    /\ \A j \in 1..Len(t) : t[j] \notin Lower

\* C11 as stated: no line that contains letters but no lower-case letter is
\* the title, whatever digits or punctuation the line also contains.
C11_NoLowerCaseLineNeverTitle ==
    Extracted =>
        \A i \in 1..Len(InputLines) :
            LettersButNoLowerCase(InputLines[i]) =>
                info.value.title # Trim(InputLines[i])

\* t holds a character of the set C
HasCharOf(t, C) == \E j \in 1..Len(t) : t[j] \in C

\* C12 as stated: a scanned line that meets the other conditions and
\* contains a whitespace character of any kind is eligible (it or a line
\* before it is the title), and a line without whitespace is never the title.
C12_AsStated ==
    Extracted =>
        LET lines == InputLines
        IN  /\ \A i \in ScannedForTitle :
                  QualifiesWithWhitespace(Trim(lines[i])) =>
                      \E j \in 1..i : info.value.title = Trim(lines[j])
            /\ \A i \in 1..Len(lines) :
                  ~HasCharOf(lines[i], WhiteSpace) => info.value.title # lines[i]

\* C12 (amended): a scanned line that meets the other conditions is eligible
\* exactly when it contains a space; a line whose trimmed text has no space,
\* whatever other whitespace it has, is never the title.
C12_EligibleWithSpace ==
    Extracted =>
        LET lines == InputLines
        IN  /\ \A i \in ScannedForTitle :
                  QualifiesWithSpace(Trim(lines[i])) =>
                      \E j \in 1..i : info.value.title = Trim(lines[j])
            /\ \A i \in 1..Len(lines) :
                  ~HasCharOf(Trim(lines[i]), {" "}) =>
                      info.value.title # Trim(lines[i])

\* the first line meets the other conditions and its only whitespace is a
\* tab: it is passed over, and the second line, which has a space, is the
\* title
C12_Witness ==
    /\ Extracted
    /\ Len(InputLines) >= 2
    /\ QualifiesWithWhitespace(Trim(InputLines[1]))
    /\ \E j \in 1..Len(InputLines[1]) : InputLines[1][j] = "\t"
    /\ ~QualifiesWithSpace(Trim(InputLines[1]))
    /\ QualifiesWithSpace(Trim(InputLines[2]))
    /\ info.value.title = Trim(InputLines[2])

-----------------------------------------------------------------------------
(* More claims about the authors *)

\* C13: the authors are the first 5 (or all, if fewer) of the lines among the
\* first 20 that start with two capitalized words and with no section name,
\* trimmed, in the order of the text.
C13_FirstFiveInOrder ==
    Extracted =>
        LET lines == InputLines
            q == {i \in 1..Min2(20, Len(lines)) :
                     /\ StartsWithTwoNames(Trim(lines[i]))
                     /\ ~StartsWithWord(Trim(lines[i]), W_abstract)
                     /\ ~StartsWithWord(Trim(lines[i]), W_introduction)
                     /\ ~StartsWithWord(Trim(lines[i]), W_conclusion)}
            nth(k) == CHOOSE i \in q : Cardinality({j \in q : j < i}) = k - 1
        IN  /\ Len(info.value.authors) = Min2(5, Cardinality(q))
            /\ \A k \in 1..Len(info.value.authors) :
                  info.value.authors[k] = Trim(lines[nth(k)])

\* the 21st line looks like an author and is left out; lines before it are
\* returned, one of them trimmed
C13_Witness ==
    /\ Extracted
    /\ Len(InputLines) >= 21
    /\ StartsWithTwoNames(Trim(InputLines[21]))
    /\ Len(info.value.authors) = Cardinality(AuthorLikeLines)
    /\ Len(info.value.authors) >= 2
    /\ \E i \in AuthorLikeLines :
          /\ InputLines[i] # Trim(InputLines[i])
          /\ \E k \in 1..Len(info.value.authors) :
                info.value.authors[k] = Trim(InputLines[i])

-----------------------------------------------------------------------------
(* More claims about the abstract *)

\* the text s starts with the text w
HasPrefix(s, w) == Len(s) >= Len(w) /\ SubSeq(s, 1, Len(w)) = w

\* the word w is at index p of t, in any letter case
WordAt(t, p, w) ==
    /\ p >= 1
    /\ p + Len(w) - 1 <= Len(t)
    /\ \A j \in 1..Len(w) :
          t[p + j - 1] = w[j] \/ (t[p + j - 1] \in Upper /\ ToLower(t[p + j - 1]) = w[j])

\* 'introduction', '1.', 'keywords' or 'key words' is at index r of t
TerminatorAt(t, r) ==
    \/ WordAt(t, r, W_introduction)
    \/ (r + 1 <= Len(t) /\ t[r] = "1" /\ t[r + 1] = ".")
    \/ WordAt(t, r, W_keywords)
    \/ /\ WordAt(t, r, W_key)
       /\ \E b \in (r + 3)..Len(t) :
             /\ WordAt(t, b, W_words)
             /\ \A j \in (r + 3)..(b - 1) : t[j] \in WhiteSpace

\* s without its leading whitespace and without the colon that follows it
WithoutColon(s) ==
    LET rest == SubSeq(s, SkipWS(s, 1), Len(s))
    IN  IF rest # <<>> /\ rest[1] = ":" THEN Tail(rest) ELSE rest

\* the abstract the rule describes: the text between the first marker and
\* the earliest terminator after it, trimmed and cut
DescribedAbstract(t) ==
    LET marks == {p \in 1..Len(t) : WordAt(t, p, W_abstract)}
    IN  IF marks = {} THEN Null
        ELSE LET from  == SetMin(marks) + Len(W_abstract)
                 terms == {r \in from..Len(t) : TerminatorAt(t, r)}
             IN  IF terms = {} THEN Null
                 ELSE LET cut == Trim(WithoutColon(SubSeq(t, from, SetMin(terms) - 1)))
                      IN  SubSeq(cut, 1, Min2(1000, Len(cut)))

\* C14: the abstract is the text between the marker and the earliest
\* terminator after it, trimmed and cut to 1000 characters; without a marker
\* or without a terminator after it the abstract is absent.
C14_AbstractBetweenMarkers ==
    Extracted =>
        LET described == DescribedAbstract(pdfResult.text)
        IN  IF described = Null THEN Absent(info.value.abstract)
            ELSE info.value.abstract = described

\* the abstract runs over a line break to the first of two terminators
C14_Witness ==
    /\ Extracted
    /\ ~Absent(info.value.abstract)
    /\ \E j \in 1..Len(info.value.abstract) : info.value.abstract[j] = "\n"
    /\ Cardinality({r \in 1..Len(pdfResult.text) : TerminatorAt(pdfResult.text, r)}) >= 2
    /\ \A r \in 1..Len(info.value.abstract) : ~TerminatorAt(info.value.abstract, r)

-----------------------------------------------------------------------------
(* Claims about the DOI *)

\* a token of the form 10.<digits>/<non-whitespace> starts at index b of t
DoiShapeAt(t, b) ==
    /\ b >= 1
    /\ b + 2 <= Len(t)
    /\ t[b] = "1" /\ t[b + 1] = "0" /\ t[b + 2] = "."
    /\ \E d \in (b + 3)..Len(t) :
          /\ \A j \in (b + 3)..d : t[j] \in Digit
          /\ d + 2 <= Len(t)
          /\ t[d + 1] = "/"
          /\ t[d + 2] \notin WhiteSpace

\* the characters of t from index a to index b - 1 are whitespace, with at
\* most one colon among them
LabelGap(t, a, b) ==
    /\ \A j \in a..(b - 1) : t[j] \in WhiteSpace \cup {":"}
    /\ Cardinality({j \in a..(b - 1) : t[j] = ":"}) <= 1

\* the labelled tokens of t: <<p, b>> with the label at p and the token at b
LabelledDois(t) ==
    {x \in (1..Len(t)) \X (1..Len(t)) :
        /\ WordAt(t, x[1], W_doi)
        /\ x[2] >= x[1] + Len(W_doi)
        /\ LabelGap(t, x[1] + Len(W_doi), x[2])
        /\ DoiShapeAt(t, x[2])}

\* the token of t that starts at index b: it runs to the next whitespace
TokenAt(t, b) ==
    LET stops == {j \in b..Len(t) : t[j] \in WhiteSpace} \cup {Len(t) + 1}
    IN  SubSeq(t, b, SetMin(stops) - 1)

\* C15: the doi is the bare token of the earliest labelled token of the
\* text: it starts with "10.", holds no whitespace and not the label before
\* it; 'DOI: 10.1000/xyz123' gives '10.1000/xyz123'; without a labelled token
\* the doi is absent.
C15_BareDoiToken ==
    Extracted =>
        LET t   == pdfResult.text
            occ == LabelledDois(t)
        IN  /\ IF occ = {} THEN Absent(info.value.doi)
               ELSE LET first == CHOOSE x \in occ : \A y \in occ : x[1] <= y[1]
                    IN  /\ info.value.doi = TokenAt(t, first[2])
                        /\ HasPrefix(info.value.doi, <<"1", "0", ".">>)
                        /\ \A j \in 1..Len(info.value.doi) :
                              info.value.doi[j] \notin WhiteSpace
            /\ t = T_Doi => info.value.doi = T_DoiToken

\* a labelled token with a colon and whitespace after the label, after an
\* unlabelled token, is returned bare
C15_Witness ==
    /\ Extracted
    /\ \E x \in LabelledDois(pdfResult.text) :
          /\ x[1] > 1
          /\ x[2] > x[1] + Len(W_doi) + 1
          /\ info.value.doi = TokenAt(pdfResult.text, x[2])
    /\ DoiShapeAt(pdfResult.text, 1)
    /\ info.value.doi # TokenAt(pdfResult.text, 1)

-----------------------------------------------------------------------------
(* Claims about the publication date *)

\* the index of the first occurrence of the text w in t, or 0
IndexOf(t, w) ==
    LET at == {p \in 1..(Len(t) - Len(w) + 1) : SubSeq(t, p, p + Len(w) - 1) = w}
    IN  IF at = {} THEN 0 ELSE SetMin(at)

\* the notations that match somewhere in the text
NotationsFound(t) == {k \in 1..3 : DateMatch(k, t) # Null}

\* C16: the first notation, in the order of datePatterns, that matches
\* anywhere in the text gives the date, wherever the other notations match:
\* a text with '2023年5月' and '2023-06-07', in either order, gives 2023, 5,
\* 1; without a match the date is absent.
C16_FirstPatternWins ==
    Extracted =>
        LET t == pdfResult.text
            found == NotationsFound(t)
        IN  /\ found = {} => Absent(info.value.publicationDate)
            /\ found # {} =>
                  LET m == DateMatch(SetMin(found), t)
                  IN  info.value.publicationDate =
                          NewDate(ParseInt(m[1]), ParseIntOr1(m[2]) - 1,
                                  ParseIntOr1(m[3]))
            /\ IndexOf(t, T_DateNen) > 0 => info.value.publicationDate = <<2023, 5, 1>>
            /\ (IndexOf(t, T_DateNen) = 0 /\ IndexOf(t, T_DateDash) > 0) =>
                  info.value.publicationDate = <<2023, 6, 7>>

\* '2023-06-07' comes before '2023年5月' in the text, and the date is 2023,
\* 5, 1
C16_Witness ==
    /\ Extracted
    /\ IndexOf(pdfResult.text, T_DateDash) > 0
    /\ IndexOf(pdfResult.text, T_DateNen) > IndexOf(pdfResult.text, T_DateDash)
    /\ info.value.publicationDate = <<2023, 5, 1>>

\* C17 as stated: the date has the year, the month and the day that the
\* match captured, and 1 for a month or day the pattern has no group for.
C17_DateAsMatched ==
    (Extracted /\ NotationsFound(pdfResult.text) # {}) =>
        LET m == DateMatch(SetMin(NotationsFound(pdfResult.text)), pdfResult.text)
        IN  /\ info.value.publicationDate[1] = ParseInt(m[1])
            /\ info.value.publicationDate[2] =
                  (IF m[2] = Undefined THEN 1 ELSE ParseInt(m[2]))
            /\ info.value.publicationDate[3] =
                  (IF m[3] = Undefined THEN 1 ELSE ParseInt(m[3]))

-----------------------------------------------------------------------------
(* Claims about the journal *)

\* the two words of the three phrases, in the order the claims give them
PhraseWords == << <<W_published, W_in>>, <<W_journal, W_of>>, <<W_proceedings, W_of>> >>

\* phrase k is at index p of t, its second word ending at index e, followed
\* by whitespace and by a character that is no comma
PhraseAt(t, k, p, e) ==
    LET w1 == PhraseWords[k][1]
        w2 == PhraseWords[k][2]
        a  == e - Len(w2) + 1
    IN  /\ WordAt(t, p, w1)
        /\ a > p + Len(w1)
        /\ \A j \in (p + Len(w1))..(a - 1) : t[j] \in WhiteSpace
        /\ WordAt(t, a, w2)
        /\ e + 2 <= Len(t)
        /\ t[e + 1] \in WhiteSpace
        /\ t[e + 2] # ","

\* the places <<p, e>> of phrase k in t
PhrasePlaces(t, k) ==
    {x \in (1..Len(t)) \X (1..Len(t)) : PhraseAt(t, k, x[1], x[2])}

\* the text after index e of t up to the next comma, trimmed
UpToComma(t, e) ==
    LET stops == {j \in (e + 1)..Len(t) : t[j] = ","} \cup {Len(t) + 1}
    IN  Trim(SubSeq(t, e + 1, SetMin(stops) - 1))

\* the name after the first place of phrase k in t
NameAfter(t, k) ==
    LET places == PhrasePlaces(t, k)
        first  == CHOOSE x \in places : \A y \in places : x[1] <= y[1]
    IN  UpToComma(t, first[2])

T_Computing == <<"C","o","m","p","u","t","i","n","g">>
T_XYZMagazine == <<"X","Y","Z"," ","M","a","g","a","z","i","n","e">>

\* C18: the journal comes from the first of 'published in', 'journal of',
\* 'proceedings of', in that order, that occurs anywhere in the text,
\* wherever the others occur: a text with 'Journal of Computing, 2020' and
\* 'Published in XYZ Magazine' resolves through 'published in'; without any
\* of them the journal is absent.
C18_FirstPhraseWins ==
    Extracted =>
        LET t == pdfResult.text
            found == {k \in 1..3 : PhrasePlaces(t, k) # {}}
        IN  /\ found = {} => Absent(info.value.journal)
            /\ found # {} => info.value.journal = NameAfter(t, SetMin(found))
            /\ (IndexOf(t, T_JournalOf) > 0 /\ IndexOf(t, T_PublishedIn) > 0) =>
                  HasPrefix(info.value.journal, T_XYZMagazine)

\* 'Journal of Computing, 2020' comes before 'Published in XYZ Magazine', and
\* the journal is the one published in
C18_Witness ==
    /\ Extracted
    /\ IndexOf(pdfResult.text, T_JournalOf) > 0
    /\ IndexOf(pdfResult.text, T_PublishedIn) > IndexOf(pdfResult.text, T_JournalOf)
    /\ info.value.journal = T_XYZMagazine

\* the journal follows one of the phrases up to the next comma, trimmed, and
\* holds no comma
JournalIsNameUpToComma ==
    ~Absent(info.value.journal) =>
        /\ \A j \in 1..Len(info.value.journal) : info.value.journal[j] # ","
        /\ info.value.journal = Trim(info.value.journal)
        /\ \E k \in 1..3 : \E x \in PhrasePlaces(pdfResult.text, k) :
              info.value.journal = UpToComma(pdfResult.text, x[2])

\* the text starts with 'Journal of Computing, 2020'
StartsWithJournalOfComputing == HasPrefix(pdfResult.text, T_JournalOf)

\* C19 as stated: the journal is the trimmed text after the phrase up to the
\* next comma, without a comma, and is 'Computing' for 'Journal of
\* Computing, 2020' whatever follows the comma.
C19_AsStated ==
    Extracted =>
        /\ JournalIsNameUpToComma
        /\ StartsWithJournalOfComputing => info.value.journal = T_Computing

\* C19 (amended): ... and is 'Computing' for 'Journal of Computing, 2020'
\* whatever follows the comma, unless a 'published in' phrase follows.
C19_NameUpToComma ==
    Extracted =>
        /\ JournalIsNameUpToComma
        /\ (StartsWithJournalOfComputing /\ PhrasePlaces(pdfResult.text, 1) = {}) =>
              info.value.journal = T_Computing

\* 'Journal of Computing, 2020' is followed by another phrase, and the
\* journal is 'Computing'
C19_Witness ==
    /\ Extracted
    /\ StartsWithJournalOfComputing
    /\ PhrasePlaces(pdfResult.text, 3) # {}
    /\ info.value.journal = T_Computing

-----------------------------------------------------------------------------
(* Claims about the optional fields *)

\* the marker of the abstract is followed, after whitespace at most, by a
\* terminator
MarkerThenTerminator(t) ==
    LET marks == {p \in 1..Len(t) : WordAt(t, p, W_abstract)}
    IN  /\ marks # {}
        /\ LET from == SetMin(marks) + Len(W_abstract)
           IN  \E r \in from..Len(t) :
                   /\ TerminatorAt(t, r)
                   /\ \A j \in from..(r - 1) : t[j] \in WhiteSpace

\* a phrase of the journal is followed by whitespace only, to the end of the
\* text
PhraseThenWhitespace(t) ==
    \E k \in 1..3 : \E x \in PhrasePlaces(t, k) :
        \A j \in (x[2] + 1)..Len(t) : t[j] \in WhiteSpace

\* C20 as stated: an abstract or journal that is present is not empty and
\* has no whitespace at either end, also when the marker or phrase is
\* followed at once by the terminator or by whitespace only.
C20_PresentFieldsNotEmpty ==
    Extracted =>
        /\ (MarkerThenTerminator(pdfResult.text) /\ ~Absent(info.value.abstract)) =>
              /\ info.value.abstract # <<>>
              /\ info.value.abstract = Trim(info.value.abstract)
        /\ (PhraseThenWhitespace(pdfResult.text) /\ ~Absent(info.value.journal)) =>
              /\ info.value.journal # <<>>
              /\ info.value.journal = Trim(info.value.journal)

-----------------------------------------------------------------------------
(* Claims about the requests that POST turns away *)

\* the request has left no file and no row
NothingStored ==
    /\ FilePath(request) \notin uploads
    /\ \A row \in papers : row.id # RowId(request) /\ row.pdfPath # FilePath(request)

\* C21: POST answers 401 without a session user id, and 400 without a file,
\* for a file that is no application/pdf and for a file above 50MB, and then
\* writes no file and creates no row; a file of exactly 50MB is not turned
\* away.
C21_RejectionsStoreNothing ==
    pc = "done" =>
        /\ request.userId = NoUserId => (response.status = 401 /\ NothingStored)
        /\ (/\ request.userId # NoUserId
            /\ \/ ~request.file.present
               \/ request.file.type # "application/pdf"
               \/ request.file.size > 50 * 1024 * 1024) =>
              (response.status = 400 /\ NothingStored)
        /\ (/\ request.userId # NoUserId
            /\ request.file.present
            /\ request.file.type = "application/pdf"
            /\ request.file.size = 50 * 1024 * 1024) =>
              response.status \notin {400, 401}

\* after an upload was stored, a PDF of one byte above 50MB is turned away
C21_Witness ==
    /\ pc = "done"
    /\ papers # {}
    /\ request.userId \in Users
    /\ request.file.type = "application/pdf"
    /\ request.file.size = 50 * 1024 * 1024 + 1
    /\ response.status = 400
    /\ NothingStored

-----------------------------------------------------------------------------
(* Claims about the requests to /api/papers/[id] *)

\* the request of slot s is a DELETE that got past findFirst and whose unlink
\* failed, and the database did not fail it
UnlinkFailed(s) ==
    /\ handlers[s].op = "DELETE"
    /\ handlers[s].pc = "done"
    /\ handlers[s].logged
    /\ handlers[s].error \notin {"unavailable", "not found"}

\* C22: a DELETE of the owner whose unlink fails goes on to delete the row
\* and answers success: the failure of unlink is logged, and unless the
\* database call itself fails the row is gone and the status is 200.
C22_DeleteSurvivesUnlinkFailure ==
    \A s \in Slots :
        (handlers[s].op = "DELETE" /\ handlers[s].logged) =>
            /\ handlers[s].pc \in {"delete", "done"}
            /\ UnlinkFailed(s) =>
                  /\ handlers[s].status = 200
                  /\ \A r \in papers : r.id # handlers[s].id

\* a DELETE has answered success and removed the row though its file is
\* still there
C22_Witness ==
    \E s \in Slots :
        /\ UnlinkFailed(s)
        /\ handlers[s].status = 200
        /\ handlers[s].pdfPath \in uploads
        /\ \A r \in papers : r.id # handlers[s].id

\* the request of slot s arrives in this step, from a user, for the paper of
\* somebody else
ArrivesForForeignPaper(s) ==
    /\ handlers[s].pc = "free"
    /\ handlers'[s].op \in {"GET", "PUT", "DELETE"}
    /\ handlers'[s].userId \in Users
    /\ \E r \in papers : r.id = handlers'[s].id /\ r.userId # handlers'[s].userId

\* the user this step acts for: the user of the request that moves, or of
\* the POST that creates its row
ActsFor(userId) ==
    \/ \E s \in Slots : handlers'[s] # handlers[s] /\ handlers'[s].userId = userId
    \/ pc = "create" /\ pc' = "done" /\ request.userId = userId

\* every paper a response carries belongs to the user of the request
OwnPapersInResponses ==
    \A s \in Slots : \A i \in 1..Len(handlers[s].result) :
        handlers[s].result[i].userId = handlers[s].userId

\* a request for the paper of somebody else is answered at once, with 404
\* unless the database fails
ForeignPaperIsNotFound ==
    \A s \in Slots :
        ArrivesForForeignPaper(s) =>
            /\ handlers'[s].pc = "done"
            /\ handlers'[s].status \in {404, 500}
            /\ handlers'[s].error = "none" => handlers'[s].status = 404

\* a step changes, removes and creates rows of the user it acts for only,
\* and removes the files of such rows only
OnlyOwnPapersChange ==
    /\ \A r \in papers \ papers' : ActsFor(r.userId)
    /\ \A r \in papers' \ papers : ActsFor(r.userId)
    /\ \A f \in uploads \ uploads' : \A r \in papers : r.pdfPath = f => ActsFor(r.userId)

\* C25: a user never reads, changes or deletes the paper of another user:
\* GET, PUT and DELETE for such a paper answer 404 and leave its row, its
\* details and its file as they are, the list holds the papers of the
\* session user only, and POST stores the row under the session user's id,
\* however the requests of the users interleave.
C25_NoAccessAcrossUsers ==
    /\ []OwnPapersInResponses
    /\ [][ForeignPaperIsNotFound /\ OnlyOwnPapersChange]_vars

\* a PUT or DELETE for the paper of another user was answered 404 while a
\* request of the owner for the same paper is under way, and the paper and
\* its file are there
C25_Witness ==
    \E s, t \in Slots :
        /\ handlers[s].op \in {"PUT", "DELETE"}
        /\ handlers[s].userId \in Users
        /\ handlers[s].status = 404
        /\ handlers[t].id = handlers[s].id
        /\ handlers[t].pc \in {"update", "upsert", "unlink"}
        /\ \E r \in papers :
              /\ r.id = handlers[s].id
              /\ r.userId = handlers[t].userId
              /\ r.userId # handlers[s].userId
              /\ r.pdfPath \in uploads

\* no request is in progress
NoRequestInProgress ==
    /\ pc \in {"idle", "done"}
    /\ \A s \in Slots : handlers[s].pc \in {"free", "done"}

\* C26 as stated: whenever no request is in progress, every file of the
\* upload directory is the pdfPath of exactly one row and the pdfPath of
\* every row is a file that exists, after POSTs and DELETEs in which the
\* file write, the file delete and the database call may fail.
C26_FilesMatchRecords ==
    NoRequestInProgress =>
        /\ \A f \in uploads : Cardinality({r \in papers : r.pdfPath = f}) = 1
        /\ \A r \in papers : r.pdfPath \in uploads

\* the row before and after the step in which the PUT of slot s updates it
RowBefore(s) == CHOOSE r \in papers : r.id = handlers[s].id
RowAfter(s) == CHOOSE r \in papers' : r.id = handlers[s].id

\* the PUT of slot s updates its row in this step
PutUpdates(s) ==
    /\ handlers[s].pc = "update"
    /\ handlers'[s].pc \in {"upsert", "done"}
    /\ handlers'[s].error = "none"

\* C27 as stated: PUT is a partial update: every field of the paper that the
\* body omits keeps its value, and the details stay as they are when the
\* body has no details.
C27_OmittedFieldsKeepTheirValue ==
    [][\A s \in Slots :
          PutUpdates(s) =>
              LET body == handlers[s].body
              IN  /\ body.title = Undefined => RowAfter(s).title = RowBefore(s).title
                  /\ body.authors = Undefined => RowAfter(s).authors = RowBefore(s).authors
                  /\ body.abstract = Undefined => RowAfter(s).abstract = RowBefore(s).abstract
                  /\ body.doi = Undefined => RowAfter(s).doi = RowBefore(s).doi
                  /\ body.publicationDate = Undefined =>
                        RowAfter(s).publicationDate = RowBefore(s).publicationDate
                  /\ body.journal = Undefined => RowAfter(s).journal = RowBefore(s).journal
                  /\ body.volume = Undefined => RowAfter(s).volume = RowBefore(s).volume
                  /\ body.issue = Undefined => RowAfter(s).issue = RowBefore(s).issue
                  /\ body.pages = Undefined => RowAfter(s).pages = RowBefore(s).pages
                  /\ ~body.details.exists => RowAfter(s).details = RowBefore(s).details]_vars

\* two requests of the owner for the same paper, a DELETE and a DELETE or a
\* PUT, neither failed by the database being unavailable
ConcurrentOnOnePaper(s, t) ==
    /\ s # t
    /\ handlers[s].op = "DELETE"
    /\ handlers[t].op \in {"DELETE", "PUT"}
    /\ handlers[s].id = handlers[t].id
    /\ handlers[s].userId = handlers[t].userId
    /\ handlers[s].userId \in Users
    /\ handlers[s].pc = "done"
    /\ handlers[t].pc = "done"
    /\ handlers[s].error # "unavailable"
    /\ handlers[t].error # "unavailable"

\* C28 as stated: for two concurrent requests of the owner on one paper,
\* DELETE with DELETE or DELETE with PUT, every interleaving of their check
\* and write steps ends with each request answering success or 404; none
\* answers 500.
C28_ConcurrentRequestsNeverFail ==
    \A s, t \in Slots :
        ConcurrentOnOnePaper(s, t) =>
            /\ handlers[s].status \in {200, 404}
            /\ handlers[t].status \in {200, 404}

-----------------------------------------------------------------------------
(* Claims about FileUpload *)

\* the list has at most maxFiles entries, each of a file of at most maxSize
\* MB and of an accepted type
ListIsValid ==
    /\ Len(fileUpload.files) <= 10
    /\ \A i \in 1..Len(fileUpload.files) :
          /\ fileUpload.files[i].file.size <= 50 * 1024 * 1024
          /\ fileUpload.files[i].file.type = "application/pdf"

\* an addFiles that makes the list longer than maxFiles leaves the entries
\* that were there, followed by the first of the new ones
ExcessIsDroppedFromTheEnd ==
    (/\ fileUpload'.added > fileUpload.added
     /\ Len(fileUpload.files) + fileUpload'.added - fileUpload.added > 10) =>
        /\ Len(fileUpload'.files) = 10
        /\ \A i \in 1..Len(fileUpload.files) : fileUpload'.files[i] = fileUpload.files[i]
        /\ \A i \in (Len(fileUpload.files) + 1)..10 :
              fileUpload'.files[i].id = fileUpload.added + i - Len(fileUpload.files)

\* C23: after any sequence of addFiles, removeFile and clear-all the list has
\* at most maxFiles (10) entries and every entry passed validateFile; an
\* addFiles that would exceed maxFiles keeps the earliest maxFiles entries
\* and drops the excess from the end.
C23_ListStaysValidAndBounded ==
    []ListIsValid /\ [][ExcessIsDroppedFromTheEnd]_vars

\* the list is full and files that were added after its last entry have
\* been dropped
C23_Witness ==
    /\ Len(fileUpload.files) = 10
    /\ fileUpload.files[10].id < fileUpload.added
    /\ \E i \in 1..9 : fileUpload.files[i + 1].id > fileUpload.files[i].id + 1

-----------------------------------------------------------------------------
(* Claims about UploadPage.handleUpload *)

\* the files are sent in the order of the list, one at a time, and none is
\* sent after a fetch that did not settle with an OK response
SentInOrderUntilFailure ==
    LET u == uploadPage
    IN  /\ Len(u.sent) <= Len(u.batch)
        /\ \A k \in 1..Len(u.sent) : u.sent[k] = u.batch[k]
        /\ Len(u.sent) = Len(u.settled) + (IF u.pc = "fetch" THEN 1 ELSE 0)
        /\ \A k \in 1..(Len(u.settled) - 1) : u.settled[k] = "ok"

\* the browser is on /papers only when every file was sent and accepted
NavigatesOnFullSuccess ==
    LET u == uploadPage
    IN  u.route = "/papers" <=>
            /\ u.pc = "idle"
            /\ u.batch # <<>>
            /\ Len(u.settled) = Len(u.batch)
            /\ \A k \in 1..Len(u.settled) : u.settled[k] = "ok"

\* the step that ends a call leaves isUploading false, the progress 0 and
\* the list empty
EndsReset ==
    (uploadPage.pc = "fetch" /\ uploadPage'.pc = "idle") =>
        /\ ~uploadPage'.isUploading
        /\ uploadPage'.uploadProgress[1] = 0
        /\ uploadPage'.uploadedFiles = <<>>

\* a call with an empty list changes nothing
NothingForEmptyList ==
    (uploadPage'.calls # uploadPage.calls /\ uploadPage.uploadedFiles = <<>>) =>
        uploadPage' = [uploadPage EXCEPT !.calls = @ + 1]

\* C24: handleUpload sends the files to POST /api/papers one at a time in
\* list order, sends none after the first response that is not OK or the
\* first network error, navigates to /papers only when every file was
\* accepted, ends in every outcome with isUploading false, progress 0 and an
\* empty list, and does nothing when the list is empty.
C24_UploadsInOrderAndResets ==
    /\ [](SentInOrderUntilFailure /\ NavigatesOnFullSuccess)
    /\ [](uploadPage.pc = "idle" => ~uploadPage.isUploading /\ uploadPage.uploadProgress[1] = 0)
    /\ [][EndsReset /\ NothingForEmptyList]_vars

\* a call has ended at the second of three files, whose response was not
\* OK, and has left the page reset on /upload
C24_Witness ==
    /\ uploadPage.pc = "idle"
    /\ Len(uploadPage.batch) = 3
    /\ uploadPage.settled = <<"ok", "not ok">>
    /\ Len(uploadPage.sent) = 2
    /\ uploadPage.route = "/upload"
    /\ ~uploadPage.isUploading
    /\ uploadPage.uploadedFiles = <<>>

-----------------------------------------------------------------------------
(* Claims about PapersPage *)

\* every fetch has settled, and none has failed
AllFetchesAnswered ==
    /\ papersPage.issued > 0
    /\ papersPage.fetches = {}
    /\ papersPage.failed = 0

\* the papers shown answer the search term and the page the page is on
ShowsCurrentQuery ==
    /\ papersPage.papers = <<papersPage.searchTerm, papersPage.pagination.page>>
    /\ papersPage.pagination.total = Matching(papersPage.searchTerm)

\* C29 as stated: once every fetch in flight has completed, the papers and
\* the pagination shown are the response to the request issued last, that
\* is, to the current search term and page, in whatever order the responses
\* of overlapping fetches arrive; and loading is true whenever a fetch is in
\* flight.
C29_ShowsLatestRequest ==
    /\ AllFetchesAnswered => ShowsCurrentQuery
    /\ papersPage.fetches # {} => papersPage.loading

\* the first half of C29 alone
C29_LatestRequestWins == AllFetchesAnswered => ShowsCurrentQuery
\* the second half of C29 alone
C29_LoadingWhileInFlight == papersPage.fetches # {} => papersPage.loading

-----------------------------------------------------------------------------
(* Claims about the title and the authors together *)

\* C30 as stated: the line that extractTitle selects as the title is never
\* also an entry of the authors that extractAuthors reports for the text.
C30_TitleIsNoAuthor ==
    (/\ partial.title \notin {Undefined, Null}
     /\ partial.authors # Undefined) =>
        \A i \in 1..Len(partial.authors) : partial.authors[i] # partial.title

====
